---- MODULE Spec2Model ----
(***************************************************************************)
(* A model of the TetrisTowers physics engine (SuperTetris).               *)
(*                                                                         *)
(* Two builds of the engine live in the repository and the model keeps     *)
(* both: the engine of src/src/cpp_physics (definitions without suffix)    *)
(* and the engine of src/src/python_logic/cpp-physics, whose operations    *)
(* that differ carry the suffix _py.  The boundary layer of                *)
(* src/cpp-physics/FFIInterface.cpp is modelled by the physics_* actions.  *)
(*                                                                         *)
(* A C++ float is modelled by an exact rational [n, d] in lowest terms     *)
(* with d > 0; d = 0 encodes the non-finite values, n = 1 for +inf,        *)
(* n = -1 for -inf and n = 0 for NaN.  Rounding of finite values is not    *)
(* modelled; division by zero, NaN propagation and NaN comparisons are.    *)
(***************************************************************************)
EXTENDS Integers, Sequences, FiniteSets, TLC

(***************************************************************************)
(* float arithmetic                                                        *)
(***************************************************************************)
RECURSIVE GCD(_, _)
GCD(a, b) == IF b = 0 THEN a ELSE GCD(b, a % b)

IAbs(a) == IF a < 0 THEN -a ELSE a

ISign(a) == IF a < 0 THEN -1 ELSE IF a > 0 THEN 1 ELSE 0

\* the float n/d, normalised
F(n, d) ==
    IF d = 0 THEN [n |-> ISign(n), d |-> 0]
    ELSE LET g == GCD(IAbs(n), IAbs(d))
         IN  [n |-> ISign(n) * ISign(d) * (IAbs(n) \div g), d |-> IAbs(d) \div g]

Zero == [n |-> 0, d |-> 1]
One == [n |-> 1, d |-> 1]
NaN == [n |-> 0, d |-> 0]
PosInf == [n |-> 1, d |-> 0]
NegInf == [n |-> -1, d |-> 0]

IsNaN(a) == a.d = 0 /\ a.n = 0
IsFinite(a) == a.d # 0
IsZero(a) == a.d # 0 /\ a.n = 0

LCM(a, b) == (a \div GCD(a, b)) * b

FNeg(a) == [n |-> -a.n, d |-> a.d]

FAdd(a, b) ==
    IF IsNaN(a) \/ IsNaN(b) THEN NaN
    ELSE IF a.d = 0 /\ b.d = 0 THEN (IF a.n = b.n THEN a ELSE NaN)
    ELSE IF a.d = 0 THEN a
    ELSE IF b.d = 0 THEN b
    ELSE LET l == LCM(a.d, b.d)
         IN  F(a.n * (l \div a.d) + b.n * (l \div b.d), l)

FSub(a, b) == FAdd(a, FNeg(b))

FMul(a, b) ==
    IF IsNaN(a) \/ IsNaN(b) THEN NaN
    ELSE IF a.d = 0 \/ b.d = 0
         THEN (IF a.n = 0 \/ b.n = 0 THEN NaN ELSE F(ISign(a.n) * ISign(b.n), 0))
    ELSE LET g1 == GCD(IAbs(a.n), b.d)
             g2 == GCD(IAbs(b.n), a.d)
         IN  F((a.n \div g1) * (b.n \div g2), (a.d \div g2) * (b.d \div g1))

FDiv(a, b) ==
    IF IsNaN(a) \/ IsNaN(b) THEN NaN
    ELSE IF b.d = 0 THEN (IF a.d = 0 THEN NaN ELSE Zero)
    ELSE IF b.n = 0 THEN (IF a.n = 0 THEN NaN ELSE F(ISign(a.n), 0))
    ELSE FMul(a, F(ISign(b.n) * b.d, IAbs(b.n)))

\* a < b as C++ evaluates it: false whenever an operand is NaN
FLt(a, b) ==
    IF IsNaN(a) \/ IsNaN(b) THEN FALSE
    ELSE IF a.d = 0 /\ b.d = 0 THEN a.n < b.n
    ELSE IF a.d = 0 THEN a.n < 0
    ELSE IF b.d = 0 THEN b.n > 0
    ELSE LET l == LCM(a.d, b.d)
         IN  a.n * (l \div a.d) < b.n * (l \div b.d)

FGt(a, b) == FLt(b, a)

FEq(a, b) == ~IsNaN(a) /\ ~IsNaN(b) /\ a = b

FLe(a, b) == FLt(a, b) \/ FEq(a, b)

FGe(a, b) == FLe(b, a)

\* std::min(a, b) is (b < a) ? b : a and std::max(a, b) is (a < b) ? b : a
FMin(a, b) == IF FLt(b, a) THEN b ELSE a

FMax(a, b) == IF FLt(a, b) THEN b ELSE a

FAbs(a) == [n |-> IAbs(a.n), d |-> a.d]

\* the largest k with k * k <= n, by bisection on lo..hi
RECURSIVE ISqrtIn(_, _, _)
ISqrtIn(n, lo, hi) ==
    IF lo >= hi THEN lo
    ELSE LET mid == (lo + hi + 1) \div 2
         IN  IF mid * mid <= n THEN ISqrtIn(n, mid, hi) ELSE ISqrtIn(n, lo, mid - 1)

\* 46340 is the largest k whose square is a 32-bit integer
ISqrt(n) == ISqrtIn(n, 0, IF n < 46340 THEN n ELSE 46340)

IsSquare(n) == ISqrt(n) * ISqrt(n) = n

\* the precision kept of a computed irrational, in steps per unit
Grid == 1000

\* a rounded to the nearest multiple of 1/Grid (the model's rounding of a
\* computed irrational: a square root, a sine, a cosine)
FRound(a) ==
    IF a.d = 0 THEN a
    ELSE F(ISign(a.n) * ((2 * IAbs(a.n) * Grid + a.d) \div (2 * a.d)), Grid)

\* std::sqrt: exact on the square of a rational, rounded to the grid otherwise
FSqrt(a) ==
    IF IsNaN(a) THEN NaN
    ELSE IF a.d = 0 THEN (IF a.n > 0 THEN PosInf ELSE NaN)
    ELSE IF a.n < 0 THEN NaN
    ELSE IF IsSquare(a.n) /\ IsSquare(a.d) THEN F(ISqrt(a.n), ISqrt(a.d))
    ELSE LET r == FRound(a)
         IN  F(ISqrt(r.n * r.d * (Grid \div r.d) * (Grid \div r.d)), Grid)

\* the float nearest to pi/2 that callers pass for a quarter turn
HalfPi == [n |-> 355, d |-> 226]

\* the sine of a reduced argument r with square r2: r - r^3/6 + r^5/120
SinSeries(r, r2) ==
    FRound(FAdd(FSub(r, FDiv(FRound(FMul(r2, r)), F(6, 1))),
                FDiv(FRound(FMul(FRound(FMul(r2, r2)), r)), F(120, 1))))

\* the cosine of a reduced argument with square r2: 1 - r^2/2 + r^4/24
CosSeries(r2) ==
    FRound(FAdd(FSub(One, FDiv(r2, F(2, 1))),
                FDiv(FRound(FMul(r2, r2)), F(24, 1))))

\* std::sin and std::cos: the argument is reduced by q quarter turns to
\* r in [-pi/4, pi/4]; exact at the quarter turns, a Taylor polynomial
\* rounded to the grid elsewhere
TrigReduce(x) ==
    LET Series(q, r, r2) == [q |-> q % 4, s |-> SinSeries(r, r2), c |-> CosSeries(r2)]
        Reduced(q, r) ==
            IF r = Zero THEN [q |-> q % 4, s |-> Zero, c |-> One]
            ELSE Series(q, FRound(r), FRound(FMul(FRound(r), FRound(r))))
        Quarter(q) == Reduced(q, FSub(x, FMul(F(q, 1), HalfPi)))
        Turns(t) == Quarter((2 * t.n + t.d) \div (2 * t.d))
    IN  Turns(FDiv(x, HalfPi))

cosf(x) ==
    LET Of(t) == CASE t.q = 0 -> t.c
                   [] t.q = 1 -> FNeg(t.s)
                   [] t.q = 2 -> FNeg(t.c)
                   [] OTHER -> t.s
    IN  IF ~IsFinite(x) THEN NaN ELSE Of(TrigReduce(x))

sinf(x) ==
    LET Of(t) == CASE t.q = 0 -> t.s
                   [] t.q = 1 -> t.c
                   [] t.q = 2 -> FNeg(t.s)
                   [] OTHER -> FNeg(t.c)
    IN  IF ~IsFinite(x) THEN NaN ELSE Of(TrigReduce(x))

(***************************************************************************)
(* Vector2                                                                 *)
(***************************************************************************)
Vector2(x, y) == [x |-> x, y |-> y]

VZero == Vector2(Zero, Zero)

VAdd(a, b) == Vector2(FAdd(a.x, b.x), FAdd(a.y, b.y))

VSub(a, b) == Vector2(FSub(a.x, b.x), FSub(a.y, b.y))

VScale(a, scalar) == Vector2(FMul(a.x, scalar), FMul(a.y, scalar))

length(a) == FSqrt(FAdd(FMul(a.x, a.x), FMul(a.y, a.y)))

normalized(a) ==
    LET Over(len) ==
            IF FGt(len, Zero) THEN Vector2(FDiv(a.x, len), FDiv(a.y, len)) ELSE a
    IN  Over(length(a))

dot(a, b) == FAdd(FMul(a.x, b.x), FMul(a.y, b.y))

VFinite(a) == IsFinite(a.x) /\ IsFinite(a.y)

\* the vector v turned by the angle with cosine cosA and sine sinA
Rotate(cosA, sinA, v) ==
    Vector2(FSub(FMul(cosA, v.x), FMul(sinA, v.y)),
            FAdd(FMul(sinA, v.x), FMul(cosA, v.y)))

(***************************************************************************)
(* PhysicsBody                                                             *)
(***************************************************************************)
NORMAL == 0
HEAVY == 1
LIGHT == 2
SLIPPERY == 3
STICKY == 4
BOUNCY == 5

\* PhysicsBody::updateMassData
updateMassData(b) ==
    LET With(inertia) ==
            [b EXCEPT !.inverseMass = FDiv(One, b.mass),
                      !.inertia = inertia,
                      !.inverseInertia = FDiv(One, inertia)]
    IN  IF b.isStatic
        THEN [b EXCEPT !.inverseMass = Zero, !.inverseInertia = Zero]
        ELSE With(FDiv(FMul(b.mass, FAdd(FMul(b.width, b.width),
                                         FMul(b.height, b.height))), F(12, 1)))

\* PhysicsBody::PhysicsBody, the default body
DefaultBody ==
    updateMassData(
        [id |-> "", position |-> VZero, velocity |-> VZero, force |-> VZero,
         rotation |-> Zero, angularVelocity |-> Zero, torque |-> Zero,
         mass |-> One, inverseMass |-> One, inertia |-> Zero,
         inverseInertia |-> Zero, restitution |-> F(1, 2), friction |-> F(3, 10),
         isStatic |-> FALSE, isActive |-> TRUE, material |-> NORMAL,
         width |-> One, height |-> One])

\* PhysicsBody::applyForce
bodyApplyForce(b, f) == [b EXCEPT !.force = VAdd(b.force, f)]

\* PhysicsBody::applyImpulse
bodyApplyImpulse(b, impulse, contactPoint) ==
    LET Cross(r) == FSub(FMul(r.x, impulse.y), FMul(r.y, impulse.x))
    IN  [b EXCEPT !.velocity = VAdd(b.velocity, VScale(impulse, b.inverseMass)),
                  !.angularVelocity =
                      FAdd(b.angularVelocity,
                           FMul(Cross(VSub(contactPoint, b.position)),
                                b.inverseInertia))]

\* PhysicsBody::getVelocityAtPoint
getVelocityAtPoint(b, point) ==
    LET Tangent(r) == Vector2(FNeg(r.y), r.x)
    IN  VAdd(b.velocity,
             VScale(Tangent(VSub(point, b.position)), b.angularVelocity))

\* PhysicsBody::containsPoint
containsPoint(b, point) ==
    LET Inside(localPoint, hw, hh) ==
            /\ FGe(localPoint.x, FNeg(hw)) /\ FLe(localPoint.x, hw)
            /\ FGe(localPoint.y, FNeg(hh)) /\ FLe(localPoint.y, hh)
    IN  Inside(Rotate(cosf(FNeg(b.rotation)), sinf(FNeg(b.rotation)),
                      VSub(point, b.position)),
               FDiv(b.width, F(2, 1)), FDiv(b.height, F(2, 1)))

\* PhysicsBody::getVertices: the four corners, in the order v1..v4
getVertices(b) ==
    LET Corners(cosA, sinA, hx, hy) ==
            << VAdd(b.position, Rotate(cosA, sinA, Vector2(FNeg(hx), FNeg(hy)))),
               VAdd(b.position, Rotate(cosA, sinA, Vector2(hx, FNeg(hy)))),
               VAdd(b.position, Rotate(cosA, sinA, Vector2(hx, hy))),
               VAdd(b.position, Rotate(cosA, sinA, Vector2(FNeg(hx), hy))) >>
    IN  Corners(cosf(b.rotation), sinf(b.rotation),
                FDiv(b.width, F(2, 1)), FDiv(b.height, F(2, 1)))

(***************************************************************************)
(* collision detection                                                     *)
(***************************************************************************)
\* std::numeric_limits<float>::max(): above every finite value of the model
FLT_MAX == PosInf

\* a bounding-box test that takes boxes that only touch for apart
checkAABBCollision_strict(bodyA, bodyB) ==
    /\ FGt(FAdd(bodyA.position.x, FDiv(bodyA.width, F(2, 1))),
           FSub(bodyB.position.x, FDiv(bodyB.width, F(2, 1))))
    /\ FLt(FSub(bodyA.position.x, FDiv(bodyA.width, F(2, 1))),
           FAdd(bodyB.position.x, FDiv(bodyB.width, F(2, 1))))
    /\ FGt(FAdd(bodyA.position.y, FDiv(bodyA.height, F(2, 1))),
           FSub(bodyB.position.y, FDiv(bodyB.height, F(2, 1))))
    /\ FLt(FSub(bodyA.position.y, FDiv(bodyA.height, F(2, 1))),
           FAdd(bodyB.position.y, FDiv(bodyB.height, F(2, 1))))

\* PhysicsEngine::checkAABBCollision
checkAABBCollision(bodyA, bodyB) ==
    LET halfWidthA == FDiv(bodyA.width, F(2, 1))
        halfHeightA == FDiv(bodyA.height, F(2, 1))
        halfWidthB == FDiv(bodyB.width, F(2, 1))
        halfHeightB == FDiv(bodyB.height, F(2, 1))
        minAx == FSub(bodyA.position.x, halfWidthA)
        maxAx == FAdd(bodyA.position.x, halfWidthA)
        minAy == FSub(bodyA.position.y, halfHeightA)
        maxAy == FAdd(bodyA.position.y, halfHeightA)
        minBx == FSub(bodyB.position.x, halfWidthB)
        maxBx == FAdd(bodyB.position.x, halfWidthB)
        minBy == FSub(bodyB.position.y, halfHeightB)
        maxBy == FAdd(bodyB.position.y, halfHeightB)
    IN  FGe(maxAx, minBx) /\ FLe(minAx, maxBx) /\ FGe(maxAy, minBy) /\ FLe(minAy, maxBy)

\* the projection loops of checkSeparatingAxis
RECURSIVE MinProjection(_, _, _, _)
MinProjection(vertices, axis, i, acc) ==
    IF i > Len(vertices) THEN acc
    ELSE MinProjection(vertices, axis, i + 1, FMin(acc, dot(vertices[i], axis)))

RECURSIVE MaxProjection(_, _, _, _)
MaxProjection(vertices, axis, i, acc) ==
    IF i > Len(vertices) THEN acc
    ELSE MaxProjection(vertices, axis, i + 1, FMax(acc, dot(vertices[i], axis)))

\* PhysicsEngine::checkSeparatingAxis: ok is the returned flag, overlap and
\* normal the two out-parameters
checkSeparatingAxis(verticesA, verticesB, axis) ==
    LET Test(minA, minB, overlap) ==
            IF FLt(overlap, Zero)
            THEN [ok |-> FALSE, overlap |-> Zero, normal |-> VZero]
            ELSE [ok |-> TRUE, overlap |-> overlap,
                  normal |-> IF FLt(minA, minB) THEN VScale(axis, F(-1, 1)) ELSE axis]
        Project(minA, maxA, minB, maxB) ==
            Test(minA, minB, FSub(FMin(maxA, maxB), FMax(minA, minB)))
    IN  Project(MinProjection(verticesA, axis, 1, FLT_MAX),
                MaxProjection(verticesA, axis, 1, FNeg(FLT_MAX)),
                MinProjection(verticesB, axis, 1, FLT_MAX),
                MaxProjection(verticesB, axis, 1, FNeg(FLT_MAX)))

\* the edge normals of a rectangle's four vertices, normalised
EdgeAxes(vertices) ==
    LET Perp(edge) == normalized(Vector2(FNeg(edge.y), edge.x))
    IN  [i \in 1..Len(vertices) |->
            Perp(VSub(vertices[(i % Len(vertices)) + 1], vertices[i]))]

\* the axis loop of checkOBBCollision: separated, or the axis of least overlap
RECURSIVE AxisLoop(_, _, _, _, _, _)
AxisLoop(verticesA, verticesB, axes, i, minOverlap, minAxis) ==
    LET Tested(r) ==
            IF ~r.ok THEN [hit |-> FALSE, minOverlap |-> minOverlap, minAxis |-> minAxis]
            ELSE IF FLt(r.overlap, minOverlap)
                 THEN AxisLoop(verticesA, verticesB, axes, i + 1, r.overlap, r.normal)
                 ELSE AxisLoop(verticesA, verticesB, axes, i + 1, minOverlap, minAxis)
    IN  IF i > Len(axes)
        THEN [hit |-> TRUE, minOverlap |-> minOverlap, minAxis |-> minAxis]
        ELSE Tested(checkSeparatingAxis(verticesA, verticesB, axes[i]))

NoContact == [bodyA |-> "", bodyB |-> "", point |-> VZero, normal |-> VZero,
              penetration |-> Zero]

\* PhysicsEngine::checkOBBCollision
checkOBBCollision(bodyA, bodyB) ==
    LET Found(r, direction) ==
            IF ~r.hit THEN [hit |-> FALSE, contact |-> NoContact]
            ELSE [hit |-> TRUE,
                  contact |->
                    [bodyA |-> bodyA.id, bodyB |-> bodyB.id,
                     normal |-> IF FLt(dot(direction, r.minAxis), Zero)
                                THEN VScale(r.minAxis, F(-1, 1)) ELSE r.minAxis,
                     penetration |-> r.minOverlap,
                     point |-> VAdd(bodyA.position, VScale(direction, F(1, 2)))]]
        Axes(verticesA, verticesB) ==
            Found(AxisLoop(verticesA, verticesB,
                           EdgeAxes(verticesA) \o EdgeAxes(verticesB),
                           1, FLT_MAX, VZero),
                  VSub(bodyB.position, bodyA.position))
    IN  Axes(getVertices(bodyA), getVertices(bodyB))

\* PhysicsEngine::checkCollision
checkCollision(bodyA, bodyB) ==
    IF ~checkAABBCollision(bodyA, bodyB) THEN [hit |-> FALSE, contact |-> NoContact]
    ELSE checkOBBCollision(bodyA, bodyB)

(***************************************************************************)
(* contact resolution and integration                                      *)
(***************************************************************************)
\* applyImpulse(impulse * -1.0f, point) on bodyA and applyImpulse(impulse,
\* point) on bodyB of a contact, each unless the body is static
applyImpulsePair(bodies, contact, impulse) ==
    [bodies EXCEPT
       ![contact.bodyA] =
           IF ~@.isStatic
           THEN bodyApplyImpulse(@, VScale(impulse, F(-1, 1)), contact.point)
           ELSE @,
       ![contact.bodyB] =
           IF ~@.isStatic THEN bodyApplyImpulse(@, impulse, contact.point) ELSE @]

\* one iteration of the loop of PhysicsEngine::resolveCollisions, on the
\* bodies map; a body is updated in place.  Read from the bottom: the
\* relative velocity, its part along the normal, the impulse j, the impulse
\* applied, the friction applied, the positions corrected.
resolveContact(bodies, contact) ==
    LET bodyA == bodies[contact.bodyA]
        bodyB == bodies[contact.bodyB]
        Corrected(bs, correction) ==
            [bs EXCEPT
               ![contact.bodyA] =
                   IF ~@.isStatic
                   THEN [@ EXCEPT !.position =
                            VSub(@, VScale(correction, bodyA.inverseMass))]
                   ELSE @,
               ![contact.bodyB] =
                   IF ~@.isStatic
                   THEN [@ EXCEPT !.position =
                            VAdd(@, VScale(correction, bodyB.inverseMass))]
                   ELSE @]
        Correction(bs) ==
            Corrected(bs,
                VScale(VScale(contact.normal,
                              FMul(FMax(FSub(contact.penetration, F(1, 100)), Zero),
                                   F(1, 5))),
                       FAdd(bodyA.inverseMass, bodyB.inverseMass)))
        Clamped(bs, tangent, jt, maxJt) ==
            applyImpulsePair(bs, contact,
                             VScale(tangent, FMax(FNeg(maxJt), FMin(jt, maxJt))))
        Unit(bs, relativeVelocity, j, tangent) ==
            Clamped(bs, tangent,
                    FDiv(FNeg(dot(relativeVelocity, tangent)),
                         FAdd(bodyA.inverseMass, bodyB.inverseMass)),
                    FMul(j, FMul(FAdd(bodyA.friction, bodyB.friction), F(1, 2))))
        Friction(bs, relativeVelocity, j, tangent, tangentLength) ==
            IF FGt(tangentLength, F(1, 10000))
            THEN Unit(bs, relativeVelocity, j,
                      VScale(tangent, FDiv(One, tangentLength)))
            ELSE bs
        Tangent(bs, relativeVelocity, j, tangent) ==
            Friction(bs, relativeVelocity, j, tangent, length(tangent))
        Impulse(relativeVelocity, velocityAlongNormal, j) ==
            Correction(
                Tangent(applyImpulsePair(bodies, contact, VScale(contact.normal, j)),
                        relativeVelocity, j,
                        VSub(relativeVelocity,
                             VScale(contact.normal, velocityAlongNormal))))
        Normal(relativeVelocity, velocityAlongNormal) ==
            IF FGt(velocityAlongNormal, Zero) THEN bodies
            ELSE Impulse(relativeVelocity, velocityAlongNormal,
                         FDiv(FMul(FNeg(FAdd(One, FMin(bodyA.restitution,
                                                       bodyB.restitution))),
                                   velocityAlongNormal),
                              FAdd(bodyA.inverseMass, bodyB.inverseMass)))
        Relative(relativeVelocity) ==
            Normal(relativeVelocity, dot(relativeVelocity, contact.normal))
    IN  IF bodyA.isStatic /\ bodyB.isStatic THEN bodies
        ELSE Relative(VSub(getVelocityAtPoint(bodyB, contact.point),
                           getVelocityAtPoint(bodyA, contact.point)))

\* PhysicsEngine::resolveCollisions: the contacts in list order
RECURSIVE resolveCollisions(_, _, _)
resolveCollisions(bodies, contacts, i) ==
    IF i > Len(contacts) THEN bodies
    ELSE resolveCollisions(resolveContact(bodies, contacts[i]), contacts, i + 1)

\* an integration that moves the body before it damps the velocity
integrateBody_dampLast(b, gravity, deltaTime) ==
    IF b.isStatic \/ ~b.isActive THEN b
    ELSE LET velocity ==
                 VAdd(b.velocity,
                      VScale(VScale(VAdd(b.force, VScale(gravity, b.mass)),
                                    b.inverseMass),
                             deltaTime))
         IN  [b EXCEPT !.velocity = VScale(velocity, F(49, 50)),
                       !.position = VAdd(b.position, VScale(velocity, deltaTime)),
                       !.force = VZero,
                       !.torque = Zero]

\* an integration that does not reset the accumulated force and torque
integrateBody_keepForce(b, gravity, deltaTime) ==
    IF b.isStatic \/ ~b.isActive THEN b
    ELSE LET velocity ==
                 VScale(VAdd(b.velocity,
                             VScale(VScale(VAdd(b.force, VScale(gravity, b.mass)),
                                           b.inverseMass),
                                    deltaTime)),
                        F(49, 50))
         IN  [b EXCEPT !.velocity = velocity,
                       !.position = VAdd(b.position, VScale(velocity, deltaTime)),
                       !.force = VAdd(b.force, VScale(gravity, b.mass))]

\* the body of the loop of PhysicsEngine::integrate (src/src/cpp_physics)
integrateBody(b, gravity, deltaTime) ==
    LET Moved(velocity, angularVelocity) ==
            [b EXCEPT !.velocity = velocity,
                      !.angularVelocity = angularVelocity,
                      !.position = VAdd(b.position, VScale(velocity, deltaTime)),
                      !.rotation = FAdd(b.rotation, FMul(angularVelocity, deltaTime)),
                      !.force = VZero,
                      !.torque = Zero]
        linearDamping == F(49, 50)
        angularDamping == F(49, 50)
    IN  IF b.isStatic \/ ~b.isActive THEN b
        ELSE Moved(VScale(VAdd(b.velocity,
                               VScale(VScale(VAdd(b.force, VScale(gravity, b.mass)),
                                             b.inverseMass),
                                      deltaTime)),
                          linearDamping),
                   FMul(FAdd(b.angularVelocity,
                             FMul(FMul(b.torque, b.inverseInertia), deltaTime)),
                        angularDamping))

\* PhysicsEngine::integrate (src/src/cpp_physics)
integrate(bodies, gravity, deltaTime) ==
    [id \in DOMAIN bodies |-> integrateBody(bodies[id], gravity, deltaTime)]

\* the body of the loop of PhysicsEngine::integrate (python_logic build)
integrateBody_py(b, gravity, deltaTime) ==
    LET Moved(velocity, angularVelocity) ==
            [b EXCEPT !.velocity = velocity,
                      !.angularVelocity = angularVelocity,
                      !.position = VAdd(b.position, VScale(velocity, deltaTime)),
                      !.rotation = FAdd(b.rotation, FMul(angularVelocity, deltaTime)),
                      !.force = VZero,
                      !.torque = Zero]
    IN  IF ~b.isActive \/ b.isStatic THEN b
        ELSE Moved(VAdd(b.velocity,
                        VScale(VAdd(VScale(b.force, b.inverseMass), gravity),
                               deltaTime)),
                   FAdd(b.angularVelocity,
                        FMul(FMul(b.torque, b.inverseInertia), deltaTime)))

\* PhysicsEngine::integrate (python_logic build)
integrate_py(bodies, gravity, deltaTime) ==
    [id \in DOMAIN bodies |-> integrateBody_py(bodies[id], gravity, deltaTime)]

(***************************************************************************)
(* bounds of the model                                                     *)
(***************************************************************************)
\* number of distinct values generateUniqueId can draw
NumIds == 2
\* number of createBody calls in one behaviour
MaxCreates == 2
\* number of calls the application thread makes in one behaviour
MaxCalls == 4
\* number of update steps that get past the paused check in one behaviour
MaxSteps == 2
\* number of passes of the driver loop in one behaviour
MaxIters == 2

(***************************************************************************)
(* PhysicsEngine: the state                                                *)
(***************************************************************************)
VARIABLES m_bodies, m_contacts, m_gravity, m_timeStep, m_velocityIterations,
          m_positionIterations, m_isRunning, m_isPaused, m_collisionCallback,
          m_mutex, m_simulationThread,
          pc, deltaTime, seenPaused, alive, call, ret,
          issuedIds, delivered, stopped, json, before, nCalls, nSteps, nIters,
          g_collisionCallback, g_callbackMutex

vars == <<m_bodies, m_contacts, m_gravity, m_timeStep, m_velocityIterations,
          m_positionIterations, m_isRunning, m_isPaused, m_collisionCallback,
          m_mutex, m_simulationThread,
          pc, deltaTime, seenPaused, alive, call, ret,
          issuedIds, delivered, stopped, json, before, nCalls, nSteps, nIters,
          g_collisionCallback, g_callbackMutex>>

\* the fields of the engine that hold simulation data
data == <<m_bodies, m_contacts, m_gravity, m_timeStep, m_velocityIterations,
          m_positionIterations, m_collisionCallback>>

\* the fields of the engine that control the driver
control == <<m_isRunning, m_isPaused, m_simulationThread, m_mutex, pc,
             deltaTime, seenPaused, alive, stopped>>

\* history and budget variables of the model: the identifiers createBody
\* returned, the contacts handed to the callback, the last document that was
\* serialised with the state it was taken from, the state in which the last
\* import began, and the numbers of calls, steps and driver passes
ghost == <<issuedIds, delivered, json, before, nCalls, nSteps, nIters>>

\* the statics of the boundary interface: the callback of the caller and the
\* mutex that guards it
ffi == <<g_collisionCallback, g_callbackMutex>>

Threads == {"main", "driver"}

\* the identifiers generateUniqueId can return: "body_" and eight hex digits
IdSpace == {"body_0000000" \o ToString(i) : i \in 1..NumIds}

\* the values of a JSON document (nlohmann::json): null, boolean, number,
\* string, array, object
JNull == [t |-> "null", v |-> <<>>]
JBool(b) == [t |-> "boolean", v |-> b]
JNumber(a) == [t |-> "number", v |-> a]
JString(s) == [t |-> "string", v |-> s]
JArray(items) == [t |-> "array", v |-> items]
JObject(members) == [t |-> "object", v |-> members]

\* what the claims about whole-state transfer compare: the bodies, the
\* gravity, the iteration counts and the running and paused flags
EngineState ==
    [bodies |-> m_bodies, gravity |-> m_gravity,
     velocityIterations |-> m_velocityIterations,
     positionIterations |-> m_positionIterations,
     isRunning |-> m_isRunning, isPaused |-> m_isPaused]

\* an empty std::unordered_map of bodies
EmptyStore == [i \in {} |-> DefaultBody]

\* PhysicsEngine::PhysicsEngine()
Init ==
    /\ m_bodies = EmptyStore
    /\ m_contacts = <<>>
    /\ m_gravity = Vector2(Zero, F(-49, 5))
    /\ m_timeStep = F(1, 60)
    /\ m_velocityIterations = 8
    /\ m_positionIterations = 3
    /\ m_isRunning = FALSE
    /\ m_isPaused = FALSE
    /\ m_collisionCallback = FALSE
    /\ m_mutex = "none"
    /\ g_collisionCallback = FALSE
    /\ g_callbackMutex = "none"
    /\ m_simulationThread = "none"
    /\ pc = [t \in Threads |-> IF t = "main" THEN "idle" ELSE "none"]
    /\ deltaTime = [t \in Threads |-> Zero]
    /\ seenPaused = FALSE
    /\ alive = "up"
    /\ call = [op |-> "PhysicsEngine", id |-> ""]
    /\ ret = "void"
    /\ issuedIds = <<>>
    /\ delivered = <<>>
    /\ stopped = FALSE
    /\ json = [ok |-> FALSE, obj |-> JNull, state |-> EngineState]
    /\ before = EngineState
    /\ nCalls = 0
    /\ nSteps = 0
    /\ nIters = 0

\* the application thread is between two calls and may make another one
MainIdle == alive = "up" /\ pc["main"] = "idle" /\ nCalls < MaxCalls

\* std::lock_guard<std::mutex> lock(m_mutex) of a call that runs to its end
\* without giving up the lock: the call waits until the lock is free
LockFree == m_mutex = "none"

\* a thread is inside the locked part of update
InStep(t) == pc[t] \in {"detect", "resolve", "integrate", "deadlock"}

Called(op, id, r) ==
    /\ call' = [op |-> op, id |-> id]
    /\ ret' = r
    /\ nCalls' = nCalls + 1

\* m_bodies.clear() and m_contacts.clear() of a thread that does not hold the
\* lock while the other thread is inside a step: a data race
Racing == \E t \in Threads : t # "main" /\ pc[t] \in {"detect", "resolve", "integrate"}

(***************************************************************************)
(* PhysicsEngine: bodies                                                   *)
(***************************************************************************)
\* std::string PhysicsEngine::generateUniqueId(): eight random hex digits
generateUniqueId == IdSpace

\* m_bodies[id] = newBody
Store(bodies, id, newBody) ==
    [i \in DOMAIN bodies \cup {id} |-> IF i = id THEN newBody ELSE bodies[i]]

\* m_bodies.erase(it)
Erase(bodies, id) == [i \in DOMAIN bodies \ {id} |-> bodies[i]]

\* std::string PhysicsEngine::createBody(const PhysicsBody& body)
createBody(body) ==
    /\ MainIdle /\ LockFree
    /\ Len(issuedIds) < MaxCreates
    /\ \E id \in generateUniqueId :
         /\ m_bodies' = Store(m_bodies, id, [body EXCEPT !.id = id])
         /\ issuedIds' = Append(issuedIds, id)
         /\ Called("createBody", id, id)
    /\ UNCHANGED <<ffi, m_contacts, m_gravity, m_timeStep, m_velocityIterations,
                   m_positionIterations, m_collisionCallback, control,
                   delivered, json, before, nSteps, nIters>>

\* PhysicsBody* PhysicsEngine::getBody(const std::string& id)
getBody(id) ==
    /\ MainIdle /\ LockFree
    /\ Called("getBody", id, IF id \in DOMAIN m_bodies THEN id ELSE "nullptr")
    /\ UNCHANGED <<ffi, data, control, issuedIds, delivered, json, before, nSteps, nIters>>

\* bool PhysicsEngine::removeBody(const std::string& id)
removeBody(id) ==
    /\ MainIdle /\ LockFree
    /\ IF id \in DOMAIN m_bodies
         THEN m_bodies' = Erase(m_bodies, id) /\ Called("removeBody", id, "true")
         ELSE m_bodies' = m_bodies /\ Called("removeBody", id, "false")
    /\ UNCHANGED <<ffi, m_contacts, m_gravity, m_timeStep, m_velocityIterations,
                   m_positionIterations, m_collisionCallback, control,
                   issuedIds, delivered, json, before, nSteps, nIters>>

\* void PhysicsEngine::registerCollisionCallback(callback)
registerCollisionCallback(callback) ==
    /\ MainIdle /\ LockFree
    /\ m_collisionCallback' = callback
    /\ Called("registerCollisionCallback", "", "void")
    /\ UNCHANGED <<ffi, m_bodies, m_contacts, m_gravity, m_timeStep,
                   m_velocityIterations, m_positionIterations, control,
                   issuedIds, delivered, json, before, nSteps, nIters>>

(***************************************************************************)
(* PhysicsEngine: life cycle                                               *)
(***************************************************************************)
\* m_bodies.clear(); m_contacts.clear() by a thread that holds no lock.  While
\* the driver is inside a step the containers are cleared under the feet of
\* the thread that iterates over them: the clear either lands between two
\* accesses of the step or breaks the process.
ClearContainers ==
    \/ m_bodies' = EmptyStore /\ m_contacts' = <<>> /\ alive' = alive
    \/ Racing /\ alive' = "crashed" /\ UNCHANGED <<ffi, m_bodies, m_contacts>>

\* bool PhysicsEngine::initialize(): no lock is taken and no thread is joined
initialize ==
    /\ MainIdle
    /\ ClearContainers
    /\ m_gravity' = Vector2(Zero, F(-49, 5))
    /\ m_isRunning' = FALSE
    /\ m_isPaused' = FALSE
    /\ Called("initialize", "", "true")
    /\ UNCHANGED <<ffi, m_timeStep, m_velocityIterations, m_positionIterations,
                   m_collisionCallback, m_simulationThread, m_mutex, pc,
                   deltaTime, seenPaused, stopped,
                   issuedIds, delivered, json, before, nSteps, nIters>>

\* startSimulation() with the test of m_isRunning left out
startSimulation_unguarded ==
    /\ MainIdle
    /\ Called("startSimulation", "", "void")
    /\ m_isRunning' = TRUE
    /\ m_isPaused' = FALSE
    /\ stopped' = FALSE
    /\ IF m_simulationThread = "none"
         THEN /\ m_simulationThread' = "running"
              /\ pc' = [pc EXCEPT !["driver"] = "loop"]
              /\ seenPaused' = FALSE
              /\ alive' = alive
         ELSE /\ alive' = "terminated"
              /\ UNCHANGED <<ffi, m_simulationThread, pc, seenPaused>>
    /\ UNCHANGED <<ffi, data, m_mutex, deltaTime, issuedIds, delivered, json, before,
                   nSteps, nIters>>

\* void PhysicsEngine::startSimulation()
startSimulation ==
    /\ MainIdle
    /\ Called("startSimulation", "", "void")
    /\ IF m_isRunning
         THEN UNCHANGED <<ffi, m_isRunning, m_isPaused, m_simulationThread, pc,
                          seenPaused, alive, stopped>>
         ELSE /\ m_isRunning' = TRUE
              /\ m_isPaused' = FALSE
              /\ stopped' = FALSE
              /\ IF m_simulationThread = "none"
                   THEN /\ m_simulationThread' = "running"
                        /\ pc' = [pc EXCEPT !["driver"] = "loop"]
                        /\ seenPaused' = FALSE
                        /\ alive' = alive
                   ELSE \* move assignment to a joinable std::thread
                        /\ alive' = "terminated"
                        /\ UNCHANGED <<ffi, m_simulationThread, pc, seenPaused>>
    /\ UNCHANGED <<ffi, data, m_mutex, deltaTime, issuedIds, delivered, json, before,
                   nSteps, nIters>>

\* void PhysicsEngine::pauseSimulation()
pauseSimulation ==
    /\ MainIdle
    /\ m_isPaused' = TRUE
    /\ Called("pauseSimulation", "", "void")
    /\ UNCHANGED <<ffi, data, m_isRunning, m_simulationThread, m_mutex, pc,
                   deltaTime, seenPaused, alive, stopped,
                   issuedIds, delivered, json, before, nSteps, nIters>>

\* void PhysicsEngine::stopSimulation(), up to the join
stopSimulation ==
    /\ MainIdle
    /\ call' = [op |-> "stopSimulation", id |-> ""]
    /\ nCalls' = nCalls + 1
    /\ IF ~m_isRunning
         THEN ret' = "void" /\ UNCHANGED <<ffi, m_isRunning, pc, stopped>>
         ELSE /\ m_isRunning' = FALSE
              /\ IF m_simulationThread # "none"
                   THEN /\ pc' = [pc EXCEPT !["main"] = "join_stop"]
                        /\ ret' = "pending"
                        /\ stopped' = stopped
                   ELSE pc' = pc /\ ret' = "void" /\ stopped' = TRUE
    /\ UNCHANGED <<ffi, data, m_isPaused, m_simulationThread, m_mutex, deltaTime,
                   seenPaused, alive, issuedIds, delivered, json, before, nSteps, nIters>>

\* m_simulationThread.join() with the wait for the thread left out
join_nowait ==
    /\ alive = "up"
    /\ pc["main"] \in {"join_stop", "join_shutdown"}
    /\ m_simulationThread' = "none"
    /\ pc' = [pc EXCEPT !["main"] = "idle"]
    /\ stopped' = TRUE
    /\ ret' = "void"
    /\ IF pc["main"] = "join_shutdown"
         THEN m_bodies' = EmptyStore /\ m_contacts' = <<>>
         ELSE UNCHANGED <<ffi, m_bodies, m_contacts>>
    /\ UNCHANGED <<ffi, m_gravity, m_timeStep, m_velocityIterations,
                   m_positionIterations, m_collisionCallback, m_isRunning,
                   m_isPaused, m_mutex, deltaTime, seenPaused, alive, call,
                   issuedIds, delivered, json, before, nCalls, nSteps, nIters>>

\* m_simulationThread.join() returns: the thread function has returned.
\* Here stopSimulation returns (and shutdown goes on to clear the containers).
join ==
    /\ alive = "up"
    /\ pc["main"] \in {"join_stop", "join_shutdown"}
    /\ m_simulationThread = "finished"
    /\ m_simulationThread' = "none"
    /\ pc' = [pc EXCEPT !["main"] = "idle"]
    /\ stopped' = TRUE
    /\ ret' = "void"
    /\ IF pc["main"] = "join_shutdown"
         THEN m_bodies' = EmptyStore /\ m_contacts' = <<>>
         ELSE UNCHANGED <<ffi, m_bodies, m_contacts>>
    /\ UNCHANGED <<ffi, m_gravity, m_timeStep, m_velocityIterations,
                   m_positionIterations, m_collisionCallback, m_isRunning,
                   m_isPaused, m_mutex, deltaTime, seenPaused, alive, call,
                   issuedIds, delivered, json, before, nCalls, nSteps, nIters>>

\* void PhysicsEngine::shutdown(), up to the join of stopSimulation()
shutdown ==
    /\ MainIdle
    /\ call' = [op |-> "shutdown", id |-> ""]
    /\ nCalls' = nCalls + 1
    /\ IF m_isRunning /\ m_simulationThread # "none"
         THEN /\ m_isRunning' = FALSE
              /\ pc' = [pc EXCEPT !["main"] = "join_shutdown"]
              /\ ret' = "pending"
              /\ UNCHANGED <<ffi, m_bodies, m_contacts, alive>>
         ELSE /\ m_isRunning' = FALSE
              /\ ClearContainers
              /\ ret' = "void"
              /\ pc' = pc
    /\ UNCHANGED <<ffi, m_gravity, m_timeStep, m_velocityIterations,
                   m_positionIterations, m_collisionCallback, m_isPaused,
                   m_simulationThread, m_mutex, deltaTime, seenPaused,
                   stopped, issuedIds, delivered, json, before, nSteps, nIters>>

(***************************************************************************)
(* PhysicsEngine: the step                                                 *)
(***************************************************************************)
\* where a thread continues when update returns: the application thread
\* goes on with its next call, the driver sleeps and tests its loop again
Return(t) == IF t = "main" THEN "idle" ELSE "loop"

\* update with the test of m_isPaused left out
update_unpaused(dt) ==
    /\ MainIdle
    /\ nSteps < MaxSteps
    /\ nSteps' = nSteps + 1
    /\ pc' = [pc EXCEPT !["main"] = "lock"]
    /\ deltaTime' = [deltaTime EXCEPT !["main"] = dt]
    /\ ret' = "pending"
    /\ call' = [op |-> "update", id |-> ""]
    /\ nCalls' = nCalls + 1
    /\ UNCHANGED <<data, m_isRunning, m_isPaused, m_simulationThread, m_mutex,
                   seenPaused, alive, stopped, issuedIds, delivered, json, before,
                   nIters, ffi>>

\* void PhysicsEngine::update(float deltaTime) called by the application,
\* up to the lock: if (m_isPaused) return
update(dt) ==
    /\ MainIdle
    /\ IF m_isPaused
         THEN UNCHANGED <<ffi, pc, deltaTime, nSteps>> /\ ret' = "void"
         ELSE /\ nSteps < MaxSteps
              /\ nSteps' = nSteps + 1
              /\ pc' = [pc EXCEPT !["main"] = "lock"]
              /\ deltaTime' = [deltaTime EXCEPT !["main"] = dt]
              /\ ret' = "pending"
    /\ call' = [op |-> "update", id |-> ""]
    /\ nCalls' = nCalls + 1
    /\ UNCHANGED <<ffi, data, m_isRunning, m_isPaused, m_simulationThread, m_mutex,
                   seenPaused, alive, stopped, issuedIds, delivered, json, before,
                   nIters>>

\* update with a lock that is taken without waiting for its owner
update_lock_nowait(t) ==
    /\ alive = "up"
    /\ pc[t] = "lock"
    /\ m_mutex' = t
    /\ pc' = [pc EXCEPT ![t] = "detect"]
    /\ UNCHANGED <<ffi, data, m_isRunning, m_isPaused, m_simulationThread,
                   deltaTime, seenPaused, alive, stopped, call, ret, ghost>>

\* std::lock_guard<std::mutex> lock(m_mutex) of update
update_lock(t) ==
    /\ alive = "up"
    /\ pc[t] = "lock"
    /\ m_mutex = "none"
    /\ m_mutex' = t
    /\ pc' = [pc EXCEPT ![t] = "detect"]
    /\ UNCHANGED <<ffi, data, m_isRunning, m_isPaused, m_simulationThread,
                   deltaTime, seenPaused, alive, stopped, call, ret, ghost>>

\* the orders in which the unordered_map can hand out its bodies
Orders(bodies) ==
    {o \in [1..Cardinality(DOMAIN bodies) -> DOMAIN bodies] :
        \A i, j \in DOMAIN o : i # j => o[i] # o[j]}

\* if (m_collisionCallback) { m_collisionCallback(contact); } of
\* detectCollisions: the calls made so far, with the call for this contact
invokeCallback_always(callback, calls, contact) == Append(calls, contact)

invokeCallback(callback, calls, contact) ==
    IF callback THEN Append(calls, contact) ELSE calls

\* the double loop of detectCollisions over bodies[i], bodies[j], j > i: the
\* contacts pushed to m_contacts and the calls of the callback, in order
RECURSIVE PairLoop(_, _, _, _, _, _)
PairLoop(bodies, order, callback, i, j, acc) ==
    IF i > Len(order) THEN acc
    ELSE IF j > Len(order) THEN PairLoop(bodies, order, callback, i + 1, i + 2, acc)
    ELSE LET r == checkCollision(bodies[order[i]], bodies[order[j]])
         IN  PairLoop(bodies, order, callback, i, j + 1,
                      IF r.hit
                        THEN [contacts |-> Append(acc.contacts, r.contact),
                              calls |-> invokeCallback(callback, acc.calls,
                                                       r.contact)]
                        ELSE acc)

\* void PhysicsEngine::detectCollisions(), the contacts it collects and the
\* calls of the callback it makes
detectCollisions(bodies, order, callback) ==
    PairLoop(bodies, order, callback, 1, 2, [contacts |-> <<>>, calls |-> <<>>])

\* detectCollisions() calls getAllBodies(), which locks m_mutex again while
\* update holds it.  Locking a std::mutex the thread owns is undefined; the
\* builds either block for ever, or throw std::system_error, or go on.
\* This is the build that goes on.
update_detect(t) ==
    /\ alive = "up"
    /\ pc[t] = "detect"
    /\ \E order \in Orders(m_bodies) :
         /\ m_contacts' = detectCollisions(m_bodies, order,
                                           m_collisionCallback).contacts
         /\ delivered' = detectCollisions(m_bodies, order,
                                          m_collisionCallback).calls
    /\ pc' = [pc EXCEPT ![t] = "resolve"]
    /\ UNCHANGED <<ffi, m_bodies, m_gravity, m_timeStep, m_velocityIterations,
                   m_positionIterations, m_collisionCallback, m_isRunning,
                   m_isPaused, m_simulationThread, m_mutex, deltaTime,
                   seenPaused, alive, stopped, call, ret, issuedIds, json, before,
                   nCalls, nSteps, nIters>>

\* the build in which the second lock blocks for ever
update_detect_deadlock(t) ==
    /\ alive = "up"
    /\ pc[t] = "detect"
    /\ m_contacts' = <<>>
    /\ pc' = [pc EXCEPT ![t] = "deadlock"]
    /\ UNCHANGED <<ffi, m_bodies, m_gravity, m_timeStep, m_velocityIterations,
                   m_positionIterations, m_collisionCallback, m_isRunning,
                   m_isPaused, m_simulationThread, m_mutex, deltaTime,
                   seenPaused, alive, stopped, call, ret, ghost>>

\* the build in which the second lock throws std::system_error: the guard of
\* update releases the lock, the exception leaves update, and in the driver
\* thread it leaves the thread function
update_detect_throw(t) ==
    /\ alive = "up"
    /\ pc[t] = "detect"
    /\ m_contacts' = <<>>
    /\ m_mutex' = "none"
    /\ IF t = "main"
         THEN /\ pc' = [pc EXCEPT ![t] = "idle"]
              /\ ret' = "system_error"
              /\ alive' = alive
         ELSE /\ pc' = [pc EXCEPT ![t] = "exited"]
              /\ alive' = "terminated"
              /\ ret' = ret
    /\ UNCHANGED <<ffi, m_bodies, m_gravity, m_timeStep, m_velocityIterations,
                   m_positionIterations, m_collisionCallback, m_isRunning,
                   m_isPaused, m_simulationThread, deltaTime, seenPaused,
                   stopped, call, ghost>>

\* resolveCollisions() of update
update_resolve(t) ==
    /\ alive = "up"
    /\ pc[t] = "resolve"
    /\ m_bodies' = resolveCollisions(m_bodies, m_contacts, 1)
    /\ pc' = [pc EXCEPT ![t] = "integrate"]
    /\ UNCHANGED <<ffi, m_contacts, m_gravity, m_timeStep, m_velocityIterations,
                   m_positionIterations, m_collisionCallback, m_isRunning,
                   m_isPaused, m_simulationThread, m_mutex, deltaTime,
                   seenPaused, alive, stopped, call, ret, ghost>>

\* integrate(deltaTime) of update and the release of the lock
update_integrate(t) ==
    /\ alive = "up"
    /\ pc[t] = "integrate"
    /\ m_bodies' = integrate(m_bodies, m_gravity, deltaTime[t])
    /\ m_mutex' = "none"
    /\ pc' = [pc EXCEPT ![t] = Return(t)]
    /\ ret' = IF t = "main" THEN "void" ELSE ret
    /\ UNCHANGED <<ffi, m_contacts, m_gravity, m_timeStep, m_velocityIterations,
                   m_positionIterations, m_collisionCallback, m_isRunning,
                   m_isPaused, m_simulationThread, deltaTime, seenPaused,
                   alive, stopped, call, ghost>>

(***************************************************************************)
(* PhysicsEngine: the driver thread                                        *)
(***************************************************************************)
\* the elapsed times the driver can measure, after the clamp to 0.05
DriverDts == {F(1, 20), F(1, 50)}

\* if (deltaTime > 0.05f) deltaTime = 0.05f
ClampDt(dt) == IF FGt(dt, F(1, 20)) THEN F(1, 20) ELSE dt

\* void PhysicsEngine::simulationThread(): while (m_isRunning) finds the flag
\* set, or still sees it set (the flag is written without synchronisation),
\* measures the time and calls update
simulationThread_loop ==
    /\ alive = "up"
    /\ pc["driver"] = "loop"
    /\ nIters < MaxIters
    /\ nIters' = nIters + 1
    /\ \E measured \in DriverDts \cup {F(1, 10)} :
         deltaTime' = [deltaTime EXCEPT !["driver"] = ClampDt(measured)]
    /\ pc' = [pc EXCEPT !["driver"] = "call"]
    /\ UNCHANGED <<ffi, data, m_isRunning, m_isPaused, m_simulationThread, m_mutex,
                   seenPaused, alive, stopped, call, ret, issuedIds,
                   delivered, json, before, nCalls, nSteps>>

\* while (m_isRunning) finds the flag cleared: the thread function returns
simulationThread_exit ==
    /\ alive = "up"
    /\ pc["driver"] = "loop"
    /\ ~m_isRunning
    /\ pc' = [pc EXCEPT !["driver"] = "exited"]
    /\ m_simulationThread' = "finished"
    /\ UNCHANGED <<ffi, data, m_isRunning, m_isPaused, m_mutex, deltaTime,
                   seenPaused, alive, stopped, call, ret, ghost>>

\* update(deltaTime) called by the driver, up to the lock: if (m_isPaused)
\* return.  The flag is written without synchronisation, so the driver reads
\* the value in memory or the value it saw last.
simulationThread_update ==
    /\ alive = "up"
    /\ pc["driver"] = "call"
    /\ \E paused \in {m_isPaused, seenPaused} :
         /\ seenPaused' = paused
         /\ IF paused
              THEN pc' = [pc EXCEPT !["driver"] = "loop"] /\ nSteps' = nSteps
              ELSE /\ nSteps < MaxSteps
                   /\ nSteps' = nSteps + 1
                   /\ pc' = [pc EXCEPT !["driver"] = "lock"]
    /\ UNCHANGED <<ffi, data, m_isRunning, m_isPaused, m_simulationThread, m_mutex,
                   deltaTime, alive, stopped, call, ret, issuedIds,
                   delivered, json, before, nCalls, nIters>>

(***************************************************************************)
(* the engine of src/src/cpp_physics with its driver thread                *)
(***************************************************************************)
\* a default-constructed PhysicsBody placed by the caller
Block(x, y) == [DefaultBody EXCEPT !.position = Vector2(x, y)]

\* the bodies the application creates
BodyInputs == {Block(Zero, Zero), Block(F(1, 2), Zero)}

\* the time steps the application passes to update
ManualDts == {F(1, 10)}

Next ==
    \/ initialize
    \/ shutdown
    \/ startSimulation
    \/ pauseSimulation
    \/ stopSimulation
    \/ join
    \/ \E body \in BodyInputs : createBody(body)
    \/ \E id \in IdSpace : removeBody(id)
    \/ \E callback \in BOOLEAN : registerCollisionCallback(callback)
    \/ \E dt \in ManualDts : update(dt)
    \/ \E t \in Threads : update_lock(t)
    \/ \E t \in Threads : update_detect(t)
    \/ \E t \in Threads : update_detect_deadlock(t)
    \/ \E t \in Threads : update_detect_throw(t)
    \/ \E t \in Threads : update_resolve(t)
    \/ \E t \in Threads : update_integrate(t)
    \/ simulationThread_loop
    \/ simulationThread_exit
    \/ simulationThread_update

Spec == Init /\ [][Next]_vars

(***************************************************************************)
(* the engine of src/src/python_logic/cpp-physics: bodies and settings     *)
(***************************************************************************)
\* a call of the application on the python build: nothing runs beside it
CallIdle == MainIdle /\ LockFree

\* the PhysicsBody physics_engine_create_block builds before it calls
\* createBody: the fields of the block, the mass taken from the density of
\* the material, then updateMassData()
create_block_body(position, size, angle, material, isStatic) ==
    updateMassData(
        [DefaultBody EXCEPT !.position = position,
                            !.width = size.x,
                            !.height = size.y,
                            !.rotation = angle,
                            !.mass = material.density,
                            !.restitution = material.restitution,
                            !.friction = material.friction,
                            !.isStatic = isStatic,
                            !.material = material.isSensor])

\* a PhysicsMaterial_FFI of the given density
Material(density) ==
    [density |-> density, restitution |-> F(1, 2), friction |-> F(3, 10),
     isSensor |-> NORMAL]

\* std::string PhysicsEngine::generateUniqueId() of the python build
generateUniqueId_py == IdSpace

\* std::string PhysicsEngine::createBody(const PhysicsBody& body)
createBody_py(body) ==
    /\ CallIdle
    /\ Len(issuedIds) < MaxCreates
    /\ \E id \in generateUniqueId_py :
         /\ m_bodies' = Store(m_bodies, id, [body EXCEPT !.id = id])
         /\ issuedIds' = Append(issuedIds, id)
         /\ Called("createBody", id, id)
    /\ UNCHANGED <<ffi, m_contacts, m_gravity, m_timeStep, m_velocityIterations,
                   m_positionIterations, m_collisionCallback, control,
                   delivered, json, before, nSteps, nIters>>

\* void PhysicsEngine::setGravity(const Vector2& gravity)
setGravity_py(gravity) ==
    /\ CallIdle
    /\ m_gravity' = gravity
    /\ Called("setGravity", "", "void")
    /\ UNCHANGED <<ffi, m_bodies, m_contacts, m_timeStep, m_velocityIterations,
                   m_positionIterations, m_collisionCallback, control,
                   issuedIds, delivered, json, before, nSteps, nIters>>

\* void PhysicsEngine::startSimulation(): the flag and nothing else
startSimulation_py ==
    /\ CallIdle
    /\ m_isRunning' = TRUE
    /\ Called("startSimulation", "", "void")
    /\ UNCHANGED <<ffi, data, m_isPaused, m_simulationThread, m_mutex, pc,
                   deltaTime, seenPaused, alive, stopped,
                   issuedIds, delivered, json, before, nSteps, nIters>>

\* void PhysicsEngine::pauseSimulation()
pauseSimulation_py ==
    /\ CallIdle
    /\ m_isPaused' = TRUE
    /\ Called("pauseSimulation", "", "void")
    /\ UNCHANGED <<ffi, data, m_isRunning, m_simulationThread, m_mutex, pc,
                   deltaTime, seenPaused, alive, stopped,
                   issuedIds, delivered, json, before, nSteps, nIters>>

\* void PhysicsEngine::stopSimulation(): the flag and nothing else
stopSimulation_py ==
    /\ CallIdle
    /\ m_isRunning' = FALSE
    /\ Called("stopSimulation", "", "void")
    /\ UNCHANGED <<ffi, data, m_isPaused, m_simulationThread, m_mutex, pc,
                   deltaTime, seenPaused, alive, stopped,
                   issuedIds, delivered, json, before, nSteps, nIters>>

(***************************************************************************)
(* the engine of src/src/python_logic/cpp-physics: whole-state transfer    *)
(***************************************************************************)
\* a float stored in a document and printed by dump(): a finite value is
\* printed with the digits that read back as the same value, a NaN or an
\* infinity is printed as null
JFloat(a) == IF IsFinite(a) THEN JNumber(a) ELSE JNull

\* an int stored in a document
JInt(i) == JNumber(F(i, 1))

\* {{"x", v.x}, {"y", v.y}}
JVector2(a) == JObject([x |-> JFloat(a.x), y |-> JFloat(a.y)])

\* bodyJson of serializeToJson and of exportStateToJson
bodyJson(body) ==
    JObject([id |-> JString(body.id),
             position |-> JVector2(body.position),
             velocity |-> JVector2(body.velocity),
             force |-> JVector2(body.force),
             rotation |-> JFloat(body.rotation),
             angularVelocity |-> JFloat(body.angularVelocity),
             torque |-> JFloat(body.torque),
             mass |-> JFloat(body.mass),
             inverseMass |-> JFloat(body.inverseMass),
             inertia |-> JFloat(body.inertia),
             inverseInertia |-> JFloat(body.inverseInertia),
             restitution |-> JFloat(body.restitution),
             friction |-> JFloat(body.friction),
             isStatic |-> JBool(body.isStatic),
             isActive |-> JBool(body.isActive),
             material |-> JInt(body.material),
             width |-> JFloat(body.width),
             height |-> JFloat(body.height)])

\* the document j of serializeToJson and of exportStateToJson, the bodies in
\* the order in which the unordered_map hands them out
StateJson(order) ==
    JObject([bodies |-> JArray([i \in 1..Len(order) |-> bodyJson(m_bodies[order[i]])]),
             gravity |-> JVector2(m_gravity),
             timeStep |-> JFloat(m_timeStep),
             velocityIterations |-> JInt(m_velocityIterations),
             positionIterations |-> JInt(m_positionIterations),
             isRunning |-> JBool(m_isRunning),
             isPaused |-> JBool(m_isPaused)])

\* std::string PhysicsEngine::serializeToJson() const
serializeToJson ==
    /\ CallIdle
    /\ \E order \in Orders(m_bodies) :
         json' = [ok |-> TRUE, obj |-> StateJson(order), state |-> EngineState]
    /\ Called("serializeToJson", "", "json")
    /\ UNCHANGED <<ffi, data, control, issuedIds, delivered, before, nSteps, nIters>>

\* std::string PhysicsEngine::exportStateToJson() const
exportStateToJson ==
    /\ CallIdle
    /\ \E order \in Orders(m_bodies) :
         json' = [ok |-> TRUE, obj |-> StateJson(order), state |-> EngineState]
    /\ Called("exportStateToJson", "", "json")
    /\ UNCHANGED <<ffi, data, control, issuedIds, delivered, before, nSteps, nIters>>


\* what reading a document can end in besides a value: an exception of the
\* library (type_error), or undefined behaviour
Thrown == [t |-> "throw", v |-> <<>>]
Undefined == [t |-> "undefined", v |-> <<>>]
Failed(j) == j.t \in {"throw", "undefined"}

\* j[key] on a document that may be changed: a null becomes an object, a
\* missing member is inserted as null, any other kind of value throws
At(j, key) ==
    IF Failed(j) THEN j
    ELSE IF j.t = "null" THEN JNull
    ELSE IF j.t # "object" THEN Thrown
    ELSE IF key \in DOMAIN j.v THEN j.v[key] ELSE JNull

\* j[key] on a const document: a value that is no object throws, a missing
\* member is undefined behaviour (an assertion of the library in a build
\* with assertions, a read through the end iterator without them)
ConstAt(j, key) ==
    IF Failed(j) THEN j
    ELSE IF j.t # "object" THEN Thrown
    ELSE IF key \in DOMAIN j.v THEN j.v[key] ELSE Undefined

\* the conversion of a document value to float: numbers and booleans convert
GetFloat(j) ==
    IF Failed(j) \/ j.t = "number" THEN j
    ELSE IF j.t = "boolean" THEN JNumber(IF j.v THEN One ELSE Zero)
    ELSE Thrown

\* the conversion to int: a number is cut to its integer part
GetInt(j) ==
    IF Failed(j) THEN j
    ELSE IF j.t = "number"
         THEN JNumber(F(ISign(j.v.n) * (IAbs(j.v.n) \div j.v.d), 1))
    ELSE IF j.t = "boolean" THEN JNumber(IF j.v THEN One ELSE Zero)
    ELSE Thrown

\* the conversion to bool: only a boolean converts
GetBool(j) == IF Failed(j) \/ j.t = "boolean" THEN j ELSE Thrown

\* the conversion to std::string: only a string converts
GetString(j) == IF Failed(j) \/ j.t = "string" THEN j ELSE Thrown

\* the index of the first read that failed, Len(reads) + 1 if none did
RECURSIVE FirstFailure(_, _)
FirstFailure(reads, i) ==
    IF i > Len(reads) \/ Failed(reads[i]) THEN i ELSE FirstFailure(reads, i + 1)

\* the reads of the loop body of deserializeFromJson, in the order of the code
BodyReads(bodyJs) ==
    << GetString(ConstAt(bodyJs, "id")),
       GetFloat(ConstAt(ConstAt(bodyJs, "position"), "x")),
       GetFloat(ConstAt(ConstAt(bodyJs, "position"), "y")),
       GetFloat(ConstAt(ConstAt(bodyJs, "velocity"), "x")),
       GetFloat(ConstAt(ConstAt(bodyJs, "velocity"), "y")),
       GetFloat(ConstAt(ConstAt(bodyJs, "force"), "x")),
       GetFloat(ConstAt(ConstAt(bodyJs, "force"), "y")),
       GetFloat(ConstAt(bodyJs, "rotation")),
       GetFloat(ConstAt(bodyJs, "angularVelocity")),
       GetFloat(ConstAt(bodyJs, "torque")),
       GetFloat(ConstAt(bodyJs, "mass")),
       GetFloat(ConstAt(bodyJs, "inverseMass")),
       GetFloat(ConstAt(bodyJs, "inertia")),
       GetFloat(ConstAt(bodyJs, "inverseInertia")),
       GetFloat(ConstAt(bodyJs, "restitution")),
       GetFloat(ConstAt(bodyJs, "friction")),
       GetBool(ConstAt(bodyJs, "isStatic")),
       GetBool(ConstAt(bodyJs, "isActive")),
       GetInt(ConstAt(bodyJs, "material")),
       GetFloat(ConstAt(bodyJs, "width")),
       GetFloat(ConstAt(bodyJs, "height")) >>

\* the PhysicsBody the loop body fills from reads that all succeeded
BodyOfReads(r) ==
    [id |-> r[1].v,
     position |-> Vector2(r[2].v, r[3].v),
     velocity |-> Vector2(r[4].v, r[5].v),
     force |-> Vector2(r[6].v, r[7].v),
     rotation |-> r[8].v, angularVelocity |-> r[9].v, torque |-> r[10].v,
     mass |-> r[11].v, inverseMass |-> r[12].v, inertia |-> r[13].v,
     inverseInertia |-> r[14].v, restitution |-> r[15].v, friction |-> r[16].v,
     isStatic |-> r[17].v, isActive |-> r[18].v, material |-> r[19].v.n,
     width |-> r[20].v, height |-> r[21].v]

\* the values the range-for over j["bodies"] visits: the elements of an
\* array, nothing for null, the value itself for a number, a string or a
\* boolean (the documents of the model hold no object in this place)
Elements(j) ==
    IF j.t = "array" THEN j.v
    ELSE IF j.t = "null" THEN <<>>
    ELSE <<j>>

\* for (const auto& bodyJson : j["bodies"]) { ... m_bodies[body.id] = ... }:
\* the store when the loop ends and how it ended
RECURSIVE BodyLoop(_, _, _)
BodyLoop(elements, i, bodies) ==
    LET Step(r, k) ==
            IF k <= Len(r) THEN [end |-> r[k].t, bodies |-> bodies]
            ELSE BodyLoop(elements, i + 1, Store(bodies, r[1].v, BodyOfReads(r)))
        Read(r) == Step(r, FirstFailure(r, 1))
    IN  IF i > Len(elements) THEN [end |-> "done", bodies |-> bodies]
        ELSE Read(BodyReads(elements[i]))

\* the reads of the settings, in the order of the code
SettingReads(j) ==
    << GetFloat(At(At(j, "gravity"), "x")),
       GetFloat(At(At(j, "gravity"), "y")),
       GetFloat(At(j, "timeStep")),
       GetInt(At(j, "velocityIterations")),
       GetInt(At(j, "positionIterations")),
       GetBool(At(j, "isRunning")),
       GetBool(At(j, "isPaused")) >>


\* bool PhysicsEngine::deserializeFromJson(const std::string& jsonStr) on the
\* text called name.  A text that does not parse makes parse() throw before
\* anything is touched.  After the parse the containers are cleared, the
\* bodies are stored one by one and the settings are assigned one by one:
\* an exception on the way leaves what was done so far and returns false.
\* A missing member of a body is undefined behaviour: the build with the
\* assertions of the library aborts, the build without them reads through
\* the end iterator and breaks or throws on what it finds.
deserializeFromJson(name, text) ==
    LET Assign(loop, r, k) ==
            /\ m_contacts' = <<>>
            /\ m_bodies' = loop.bodies
            /\ IF loop.end = "done"
                 THEN /\ m_gravity' = Vector2(IF k > 1 THEN r[1].v ELSE m_gravity.x,
                                              IF k > 2 THEN r[2].v ELSE m_gravity.y)
                      /\ m_timeStep' = IF k > 3 THEN r[3].v ELSE m_timeStep
                      /\ m_velocityIterations' =
                             IF k > 4 THEN r[4].v.n ELSE m_velocityIterations
                      /\ m_positionIterations' =
                             IF k > 5 THEN r[5].v.n ELSE m_positionIterations
                      /\ m_isRunning' = IF k > 6 THEN r[6].v ELSE m_isRunning
                      /\ m_isPaused' = IF k > 7 THEN r[7].v ELSE m_isPaused
                      /\ ret' = IF k > 7 THEN "true" ELSE "false"
                      /\ alive' = alive
                 ELSE /\ UNCHANGED <<ffi, m_gravity, m_timeStep, m_velocityIterations,
                                     m_positionIterations, m_isRunning, m_isPaused>>
                      /\ \/ ret' = "false" /\ alive' = alive
                         \/ loop.end = "undefined" /\ ret' = "abort" /\ alive' = "crashed"
        Settings(loop, r) == Assign(loop, r, FirstFailure(r, 1))
        Bodies(bodiesJs) ==
            Settings(IF Failed(bodiesJs)
                       THEN [end |-> "throw", bodies |-> EmptyStore]
                       ELSE BodyLoop(Elements(bodiesJs), 1, EmptyStore),
                     SettingReads(text.obj))
    IN  /\ CallIdle
        /\ before' = EngineState
        /\ call' = [op |-> "deserializeFromJson", id |-> name]
        /\ nCalls' = nCalls + 1
        /\ IF text.ok
             THEN Bodies(At(text.obj, "bodies"))
             ELSE /\ ret' = "false"
                  /\ UNCHANGED <<ffi, m_bodies, m_contacts, m_gravity, m_timeStep,
                                 m_velocityIterations, m_positionIterations,
                                 m_isRunning, m_isPaused, alive>>
        /\ UNCHANGED <<ffi, m_collisionCallback, m_simulationThread, m_mutex, pc,
                       deltaTime, seenPaused, stopped, issuedIds, delivered,
                       json, nSteps, nIters>>

\* what importStateFromJson returns for every text: return false
ImportResult(text) == FALSE

\* bool PhysicsEngine::importStateFromJson(const std::string& json)
importStateFromJson(name, text) ==
    /\ CallIdle
    /\ before' = EngineState
    /\ Called("importStateFromJson", name, IF ImportResult(text) THEN "true" ELSE "false")
    /\ UNCHANGED <<ffi, data, control, issuedIds, delivered, json, nSteps, nIters>>

\* svr.Get("/state", ...): the response body is exportStateToJson()
get_state ==
    /\ CallIdle
    /\ \E order \in Orders(m_bodies) :
         json' = [ok |-> TRUE, obj |-> StateJson(order), state |-> EngineState]
    /\ Called("GET /state", "", "200")
    /\ UNCHANGED <<ffi, data, control, issuedIds, delivered, before, nSteps, nIters>>

\* svr.Post("/state", ...): importStateFromJson(req.body), status 400 unless
\* it reports success
post_state(name, text) ==
    /\ CallIdle
    /\ before' = EngineState
    /\ Called("POST /state", name, IF ImportResult(text) THEN "200" ELSE "400")
    /\ UNCHANGED <<ffi, data, control, issuedIds, delivered, json, nSteps, nIters>>

\* a document without the member key, and with the member key replaced
Without(j, key) == JObject([k \in DOMAIN j.v \ {key} |-> j.v[k]])
With(j, key, value) == JObject([k \in DOMAIN j.v |-> IF k = key THEN value ELSE j.v[k]])

\* the document j with the last element of its array "bodies" replaced
WithLastBody(j, bodyJs) ==
    With(j, "bodies",
         JArray([i \in 1..Len(j.v["bodies"].v) |->
                    IF i = Len(j.v["bodies"].v) THEN bodyJs ELSE j.v["bodies"].v[i]]))

Text(name, obj) == [name |-> name, text |-> [ok |-> TRUE, obj |-> obj]]

\* the last body of the document j
LastBody(j) == j.v["bodies"].v[Len(j.v["bodies"].v)]

\* the texts handed to an import: the document that was serialised last,
\* that document cut off in the middle (it does not parse), the empty
\* object, the document without a setting, and the document with a body
\* that lacks a field or holds a string where a number belongs
Texts ==
    {[name |-> "truncated", text |-> [ok |-> FALSE, obj |-> JNull]],
     Text("empty", JObject(<<>>))}
    \cup (IF json.ok
            THEN {Text("saved", json.obj),
                  Text("no_gravity", Without(json.obj, "gravity")),
                  Text("no_isPaused", Without(json.obj, "isPaused"))}
            ELSE {})
    \cup (IF json.ok /\ Len(json.obj.v["bodies"].v) > 0
            THEN {Text("body_no_height",
                       WithLastBody(json.obj, Without(LastBody(json.obj), "height"))),
                  Text("body_mass_string",
                       WithLastBody(json.obj,
                                    With(LastBody(json.obj), "mass", JString("heavy"))))}
            ELSE {})

\* the bodies the application creates, built as physics_engine_create_block
\* builds them: a block, a static base, and a block of a material of density 0
BlockInputs ==
    {create_block_body(VZero, Vector2(One, One), Zero, Material(One), FALSE),
     create_block_body(Vector2(Zero, F(-1, 1)), Vector2(F(3, 1), One), Zero,
                       Material(One), TRUE),
     create_block_body(VZero, Vector2(One, One), Zero, Material(Zero), FALSE)}

NextPy ==
    \/ \E body \in BlockInputs : createBody_py(body)
    \/ setGravity_py(VZero)
    \/ startSimulation_py
    \/ pauseSimulation_py
    \/ stopSimulation_py
    \/ serializeToJson
    \/ exportStateToJson
    \/ get_state
    \/ \E t \in Texts : deserializeFromJson(t.name, t.text)
    \/ \E t \in Texts : importStateFromJson(t.name, t.text)
    \/ \E t \in Texts : post_state(t.name, t.text)

SpecPy == Init /\ [][NextPy]_vars

(***************************************************************************)
(* the engine of src/src/cpp_physics: operations on one body               *)
(***************************************************************************)
\* applyForce written with m_bodies[bodyId], which inserts a body for an
\* identifier that is not in the store
applyForce_inserting(bodyId, force) ==
    /\ MainIdle /\ LockFree
    /\ m_bodies' = Store(m_bodies, bodyId,
                         bodyApplyForce(IF bodyId \in DOMAIN m_bodies
                                          THEN m_bodies[bodyId] ELSE DefaultBody,
                                        force))
    /\ Called("applyForce", bodyId, "void")
    /\ UNCHANGED <<ffi, m_contacts, m_gravity, m_timeStep, m_velocityIterations,
                   m_positionIterations, m_collisionCallback, control,
                   issuedIds, delivered, json, before, nSteps, nIters>>

\* void PhysicsEngine::applyForce(const std::string& bodyId, const Vector2& force)
applyForce(bodyId, force) ==
    /\ MainIdle /\ LockFree
    /\ m_bodies' = IF bodyId \in DOMAIN m_bodies
                     THEN [m_bodies EXCEPT ![bodyId] = bodyApplyForce(@, force)]
                     ELSE m_bodies
    /\ Called("applyForce", bodyId, "void")
    /\ UNCHANGED <<ffi, m_contacts, m_gravity, m_timeStep, m_velocityIterations,
                   m_positionIterations, m_collisionCallback, control,
                   issuedIds, delivered, json, before, nSteps, nIters>>

\* void PhysicsEngine::applyImpulse(bodyId, impulse, contactPoint)
applyImpulse(bodyId, impulse, contactPoint) ==
    /\ MainIdle /\ LockFree
    /\ m_bodies' = IF bodyId \in DOMAIN m_bodies
                     THEN [m_bodies EXCEPT
                              ![bodyId] = bodyApplyImpulse(@, impulse, contactPoint)]
                     ELSE m_bodies
    /\ Called("applyImpulse", bodyId, "void")
    /\ UNCHANGED <<ffi, m_contacts, m_gravity, m_timeStep, m_velocityIterations,
                   m_positionIterations, m_collisionCallback, control,
                   issuedIds, delivered, json, before, nSteps, nIters>>

\* bool PhysicsEngine::isPointInBody(const std::string& bodyId, const Vector2& point)
isPointInBody(bodyId, point) ==
    /\ MainIdle /\ LockFree
    /\ Called("isPointInBody", bodyId,
              IF bodyId \in DOMAIN m_bodies /\ containsPoint(m_bodies[bodyId], point)
                THEN "true" ELSE "false")
    /\ UNCHANGED <<ffi, data, control, issuedIds, delivered, json, before, nSteps, nIters>>

\* a spell that changes the mass of a body and leaves its derived data
SpellOnBody_stale(body, spellType) ==
    CASE spellType = "heavy" ->
             [body EXCEPT !.mass = FMul(@, F(2, 1)), !.material = HEAVY]
      [] spellType = "light" ->
             [body EXCEPT !.mass = FMul(@, F(1, 2)), !.material = LIGHT]
      [] OTHER -> body

\* the branches of applySpell on one body of the store
SpellOnBody(body, spellType) ==
    CASE spellType = "heavy" ->
             updateMassData([body EXCEPT !.mass = FMul(@, F(2, 1)),
                                         !.material = HEAVY])
      [] spellType = "light" ->
             updateMassData([body EXCEPT !.mass = FMul(@, F(1, 2)),
                                         !.material = LIGHT])
      [] spellType = "slippery" ->
             [body EXCEPT !.friction = FMul(@, F(1, 5)), !.material = SLIPPERY]
      [] spellType = "sticky" ->
             [body EXCEPT !.friction = FMul(@, F(2, 1)), !.material = STICKY]
      [] spellType = "bouncy" ->
             [body EXCEPT !.restitution = F(9, 10), !.material = BOUNCY]
      [] spellType = "normal" ->
             updateMassData([body EXCEPT !.mass = One,
                                         !.friction = F(3, 10),
                                         !.restitution = F(1, 2),
                                         !.material = NORMAL])
      [] spellType = "impulse_up" ->
             bodyApplyImpulse(body, Vector2(Zero, F(10, 1)), body.position)
      [] spellType = "impulse_down" ->
             bodyApplyImpulse(body, Vector2(Zero, F(-5, 1)), body.position)
      [] spellType = "impulse_left" ->
             bodyApplyImpulse(body, Vector2(F(-5, 1), Zero), body.position)
      [] spellType = "impulse_right" ->
             bodyApplyImpulse(body, Vector2(F(5, 1), Zero), body.position)
      [] spellType = "rotate_cw" ->
             [body EXCEPT !.angularVelocity = FAdd(@, F(2, 1))]
      [] spellType = "rotate_ccw" ->
             [body EXCEPT !.angularVelocity = FSub(@, F(2, 1))]
      [] OTHER -> body

\* for (const auto& id : targetBlockIds) of applySpell
RECURSIVE SpellLoop(_, _, _, _)
SpellLoop(bodies, spellType, targetBlockIds, i) ==
    IF i > Len(targetBlockIds) THEN bodies
    ELSE SpellLoop(IF targetBlockIds[i] \in DOMAIN bodies
                     THEN [bodies EXCEPT ![targetBlockIds[i]] = SpellOnBody(@, spellType)]
                     ELSE bodies,
                   spellType, targetBlockIds, i + 1)

\* void PhysicsEngine::applySpell(spellType, targetBlockIds)
applySpell(spellType, targetBlockIds) ==
    /\ MainIdle /\ LockFree
    /\ m_bodies' = SpellLoop(m_bodies, spellType, targetBlockIds, 1)
    /\ call' = [op |-> "applySpell", id |-> spellType,
                targetBlockIds |-> targetBlockIds]
    /\ ret' = "void"
    /\ nCalls' = nCalls + 1
    /\ UNCHANGED <<ffi, m_contacts, m_gravity, m_timeStep, m_velocityIterations,
                   m_positionIterations, m_collisionCallback, control,
                   issuedIds, delivered, json, before, nSteps, nIters>>

\* void physics_block_set_static(void* engine, int blockId, int isStatic):
\* the body is looked up under the decimal digits of blockId
physics_block_set_static(blockId, isStatic) ==
    /\ MainIdle /\ LockFree
    /\ m_bodies' = IF ToString(blockId) \in DOMAIN m_bodies
                     THEN [m_bodies EXCEPT ![ToString(blockId)] =
                              updateMassData([@ EXCEPT !.isStatic = isStatic])]
                     ELSE m_bodies
    /\ Called("physics_block_set_static", ToString(blockId), "void")
    /\ UNCHANGED <<ffi, m_contacts, m_gravity, m_timeStep, m_velocityIterations,
                   m_positionIterations, m_collisionCallback, control,
                   issuedIds, delivered, json, before, nSteps, nIters>>

\* void physics_block_set_material(void* engine, int blockId, material)
physics_block_set_material(blockId, material) ==
    /\ MainIdle /\ LockFree
    /\ m_bodies' = IF ToString(blockId) \in DOMAIN m_bodies
                     THEN [m_bodies EXCEPT ![ToString(blockId)] =
                              updateMassData([@ EXCEPT
                                  !.mass = material.density,
                                  !.restitution = material.restitution,
                                  !.friction = material.friction,
                                  !.material = material.isSensor])]
                     ELSE m_bodies
    /\ Called("physics_block_set_material", ToString(blockId), "void")
    /\ UNCHANGED <<ffi, m_contacts, m_gravity, m_timeStep, m_velocityIterations,
                   m_positionIterations, m_collisionCallback, control,
                   issuedIds, delivered, json, before, nSteps, nIters>>

(***************************************************************************)
(* the engine of src/src/cpp_physics used by one thread                    *)
(***************************************************************************)
\* the static base of testTowerStability: a default body whose isStatic is
\* set by the caller, handed to createBody as it is
TowerBase ==
    [DefaultBody EXCEPT !.position = VZero,
                        !.width = F(3, 1),
                        !.height = One,
                        !.isStatic = TRUE]

\* the bodies the application creates: the base and a block resting on it
TowerInputs == {TowerBase, Block(Zero, One)}

\* the force applyForce is called with in SpecBody
AppliedForce == Vector2(F(10, 1), F(5, 1))

\* the spells the application casts
SpellInputs == {"heavy", "normal", "impulse_up", "rotate_cw"}

\* the block numbers the boundary layer is called with
BlockIds == {1}

NextBody ==
    \/ \E body \in TowerInputs : createBody(body)
    \/ \E id \in IdSpace : getBody(id)
    \/ \E id \in IdSpace : removeBody(id)
    \/ \E id \in IdSpace : applyForce(id, AppliedForce)
    \/ \E id \in IdSpace : applyImpulse(id, Vector2(Zero, F(20, 1)), VZero)
    \/ \E id \in IdSpace : isPointInBody(id, VZero)
    \/ \E spellType \in SpellInputs, id \in IdSpace : applySpell(spellType, <<id>>)
    \/ \E blockId \in BlockIds : physics_block_set_static(blockId, TRUE)
    \/ \E blockId \in BlockIds : physics_block_set_material(blockId, Material(F(2, 1)))
    \/ \E dt \in ManualDts : update(dt)
    \/ update_lock("main")
    \/ update_detect("main")
    \/ update_detect_deadlock("main")
    \/ update_detect_throw("main")
    \/ update_resolve("main")
    \/ update_integrate("main")

SpecBody == Init /\ [][NextBody]_vars

(***************************************************************************)
(* the boundary interface of src/cpp-physics/FFIInterface.cpp              *)
(***************************************************************************)
\* the block numbers a caller of the boundary interface passes
FfiIds == 0 .. NumIds

\* std::to_string(int)
to_string(blockId) == ToString(blockId)

\* std::stoi(str): the number a decimal spelling denotes; std::invalid_argument
\* when the string does not begin with a number, as every identifier of
\* generateUniqueId, which begins with "body_"
stoi(str) ==
    IF \E i \in FfiIds : to_string(i) = str
      THEN [thrown |-> FALSE, value |-> CHOOSE i \in FfiIds : to_string(i) = str]
      ELSE [thrown |-> TRUE, value |-> -1]

\* how a call of the boundary interface ends after it converted the
\* identifier id: the number is returned, or std::invalid_argument leaves the
\* extern "C" function, to a C++ caller that catches it or through a foreign
\* frame that ends the process
stoiReturn(op, id) ==
    /\ call' = [op |-> op, id |-> id]
    /\ nCalls' = nCalls + 1
    /\ IF stoi(id).thrown
         THEN \/ ret' = "invalid_argument" /\ alive' = alive
              \/ ret' = "terminate" /\ alive' = "terminated"
         ELSE ret' = to_string(stoi(id).value) /\ alive' = alive

\* int physics_engine_create_block(engine, position, size, angle, material,
\*                                 isStatic)
physics_engine_create_block(position, size, angle, material, isStatic) ==
    /\ CallIdle
    /\ Len(issuedIds) < MaxCreates
    /\ before' = EngineState
    /\ \E id \in generateUniqueId_py :
         /\ m_bodies' = Store(m_bodies, id,
               [create_block_body(position, size, angle, material, isStatic)
                   EXCEPT !.id = id])
         /\ issuedIds' = Append(issuedIds, id)
         /\ stoiReturn("physics_engine_create_block", id)
    /\ UNCHANGED <<ffi, m_contacts, m_gravity, m_timeStep, m_velocityIterations,
                   m_positionIterations, m_isRunning, m_isPaused,
                   m_collisionCallback, m_mutex, m_simulationThread, pc,
                   deltaTime, seenPaused, stopped, delivered, json, nSteps,
                   nIters>>

\* int physics_engine_remove_block(void* engine, int blockId)
physics_engine_remove_block(blockId) ==
    /\ CallIdle
    /\ before' = EngineState
    /\ m_bodies' = Erase(m_bodies, to_string(blockId))
    /\ Called("physics_engine_remove_block", to_string(blockId),
              IF to_string(blockId) \in DOMAIN m_bodies THEN "1" ELSE "0")
    /\ UNCHANGED <<ffi, m_contacts, m_gravity, m_timeStep, m_velocityIterations,
                   m_positionIterations, m_collisionCallback, control,
                   issuedIds, delivered, json, nSteps, nIters>>

\* int physics_block_is_static(void* engine, int blockId): 0 as well when no
\* body is stored under the number
physics_block_is_static(blockId) ==
    /\ CallIdle
    /\ before' = EngineState
    /\ Called("physics_block_is_static", to_string(blockId),
              IF to_string(blockId) \in DOMAIN m_bodies
                   /\ m_bodies[to_string(blockId)].isStatic
                THEN "1" ELSE "0")
    /\ UNCHANGED <<ffi, data, control, issuedIds, delivered, json, nSteps, nIters>>

\* enum class TetrominoType { I, J, L, O, S, T, Z }, by its number
TetrominoType == <<"I", "J", "L", "O", "S", "T", "Z">>

\* the blockPositions of createTetromino for blockSize 1.0f; no case of the
\* switch is taken by a number that is no TetrominoType, which leaves the
\* list empty
blockPositions(type) ==
    IF type + 1 \notin DOMAIN TetrominoType THEN <<>>
    ELSE CASE TetrominoType[type + 1] = "I" ->
                <<Vector2(F(-3, 2), Zero), Vector2(F(-1, 2), Zero),
                  Vector2(F(1, 2), Zero), Vector2(F(3, 2), Zero)>>
           [] TetrominoType[type + 1] = "J" ->
                <<Vector2(F(-1, 1), F(1, 2)), Vector2(F(-1, 1), F(-1, 2)),
                  Vector2(Zero, F(-1, 2)), Vector2(One, F(-1, 2))>>
           [] TetrominoType[type + 1] = "L" ->
                <<Vector2(F(-1, 1), F(-1, 2)), Vector2(Zero, F(-1, 2)),
                  Vector2(One, F(-1, 2)), Vector2(One, F(1, 2))>>
           [] TetrominoType[type + 1] = "O" ->
                <<Vector2(F(-1, 2), F(-1, 2)), Vector2(F(-1, 2), F(1, 2)),
                  Vector2(F(1, 2), F(-1, 2)), Vector2(F(1, 2), F(1, 2))>>
           [] TetrominoType[type + 1] = "S" ->
                <<Vector2(F(-1, 1), F(-1, 2)), Vector2(Zero, F(-1, 2)),
                  Vector2(Zero, F(1, 2)), Vector2(One, F(1, 2))>>
           [] TetrominoType[type + 1] = "T" ->
                <<Vector2(F(-1, 1), F(-1, 2)), Vector2(Zero, F(-1, 2)),
                  Vector2(One, F(-1, 2)), Vector2(Zero, F(1, 2))>>
           [] OTHER ->
                <<Vector2(F(-1, 1), F(1, 2)), Vector2(Zero, F(1, 2)),
                  Vector2(Zero, F(-1, 2)), Vector2(One, F(-1, 2))>>

\* Tetromino PhysicsEngine::createTetromino(type, position, rotation): the
\* blocks of the returned Tetromino; the engine's store is not touched
createTetromino(type, position, rotation) ==
    [i \in DOMAIN blockPositions(type) |->
        updateMassData(
            [DefaultBody EXCEPT
                !.position = VAdd(position,
                                  Rotate(cosf(rotation), sinf(rotation),
                                         blockPositions(type)[i])),
                !.rotation = rotation,
                !.width = One,
                !.height = One,
                !.mass = One,
                !.restitution = F(1, 10),
                !.friction = F(4, 5),
                !.material = NORMAL])]

\* the number of blocks the loop of physics_engine_create_tetris_block hands to
\* createBody when createBody answers with ids[1], ids[2], ...: the loop is
\* left by the first std::stoi that throws
blocksStored(ids) ==
    IF \E i \in DOMAIN ids : stoi(ids[i]).thrown
      THEN CHOOSE i \in DOMAIN ids :
             /\ stoi(ids[i]).thrown
             /\ \A j \in 1 .. (i - 1) : ~stoi(ids[j]).thrown
      ELSE Len(ids)

\* m_bodies after createBody stored the first n of the blocks under ids
RECURSIVE storeBlocks(_, _, _, _, _)
storeBlocks(bodies, blocks, ids, i, n) ==
    IF i > n THEN bodies
    ELSE storeBlocks(Store(bodies, ids[i], [blocks[i] EXCEPT !.id = ids[i]]),
                     blocks, ids, i + 1, n)

\* int* physics_engine_create_tetris_block(engine, type, position, blockSize,
\*                                         angle, material, count)
physics_engine_create_tetris_block(type, position, angle, material) ==
    /\ CallIdle
    /\ Len(issuedIds) < MaxCreates
    /\ before' = EngineState
    /\ LET tetromino == createTetromino(type, position, angle)
           blocks == [i \in DOMAIN tetromino |->
                        updateMassData(
                          [tetromino[i] EXCEPT
                              !.mass = material.density,
                              !.restitution = material.restitution,
                              !.friction = material.friction,
                              !.material = material.isSensor])]
       IN  IF Len(blocks) = 0
             THEN /\ Called("physics_engine_create_tetris_block", "", "nullptr")
                  /\ UNCHANGED <<ffi, m_bodies, issuedIds, alive>>
             ELSE \E ids \in [DOMAIN blocks -> generateUniqueId_py] :
                    LET n == blocksStored(ids)
                    IN  /\ m_bodies' = storeBlocks(m_bodies, blocks, ids, 1, n)
                        /\ issuedIds' = issuedIds \o SubSeq(ids, 1, n)
                        /\ IF \E i \in DOMAIN ids : stoi(ids[i]).thrown
                             THEN stoiReturn("physics_engine_create_tetris_block",
                                             ids[n])
                             ELSE /\ Called("physics_engine_create_tetris_block",
                                            ids[n], "ids")
                                  /\ alive' = alive
    /\ UNCHANGED <<ffi, m_contacts, m_gravity, m_timeStep, m_velocityIterations,
                   m_positionIterations, m_isRunning, m_isPaused,
                   m_collisionCallback, m_mutex, m_simulationThread, pc,
                   deltaTime, seenPaused, stopped, delivered, json, nSteps,
                   nIters>>

\* the kinds a caller asks for: the seven of the enumeration and a number
\* that is none of them
TetrisTypes == 0 .. 7

\* the blocks a caller asks for: a unit block, a static base, a block of a
\* material without density
FfiBlocks ==
    {[position |-> VZero, size |-> Vector2(One, One), material |-> Material(One),
      isStatic |-> FALSE],
     [position |-> Vector2(Zero, F(-1, 1)), size |-> Vector2(F(3, 1), One),
      material |-> Material(One), isStatic |-> TRUE],
     [position |-> VZero, size |-> Vector2(One, One), material |-> Material(Zero),
      isStatic |-> FALSE]}

\* the calls of the boundary interface on one engine with no driver thread
NextFFI ==
    \/ \E b \in FfiBlocks :
         physics_engine_create_block(b.position, b.size, Zero, b.material,
                                     b.isStatic)
    \/ \E type \in TetrisTypes :
         physics_engine_create_tetris_block(type, Vector2(Zero, F(5, 1)), Zero,
                                            Material(One))
    \/ \E blockId \in FfiIds : physics_engine_remove_block(blockId)
    \/ \E blockId \in FfiIds : physics_block_is_static(blockId)

SpecFFI == Init /\ [][NextFFI]_vars

(***************************************************************************)
(* PhysicsEngine::checkTowerStability                                      *)
(***************************************************************************)
\* the loop that finds the lowest block: the index of the first block whose
\* position.y is below every block before it, 0 for a null lowestBlock
RECURSIVE lowestBlock(_, _, _, _)
lowestBlock(towerBlocks, i, lowestY, lowest) ==
    IF i > Len(towerBlocks) THEN lowest
    ELSE IF FLt(towerBlocks[i].position.y, lowestY)
           THEN lowestBlock(towerBlocks, i + 1, towerBlocks[i].position.y, i)
           ELSE lowestBlock(towerBlocks, i + 1, lowestY, lowest)

\* a center of mass that gives every block the same weight
RECURSIVE centerOfMass_unweighted(_, _, _, _)
centerOfMass_unweighted(towerBlocks, i, sum, totalMass) ==
    IF i > Len(towerBlocks)
      THEN IF FGt(totalMass, Zero) THEN VScale(sum, FDiv(One, totalMass)) ELSE sum
      ELSE centerOfMass_unweighted(towerBlocks, i + 1,
                                   VAdd(sum, towerBlocks[i].position),
                                   FAdd(totalMass, One))

\* the loop that sums position * mass and mass, and the division by the total
\* mass that is made when the total mass is positive
RECURSIVE centerOfMass(_, _, _, _)
centerOfMass(towerBlocks, i, sum, totalMass) ==
    IF i > Len(towerBlocks)
      THEN IF FGt(totalMass, Zero) THEN VScale(sum, FDiv(One, totalMass)) ELSE sum
      ELSE centerOfMass(towerBlocks, i + 1,
                        VAdd(sum, VScale(towerBlocks[i].position,
                                         towerBlocks[i].mass)),
                        FAdd(totalMass, towerBlocks[i].mass))

\* the value checkTowerStability returns for the store and the list
towerStability(bodies, towerBlockIds) ==
    LET towerBlocks == [i \in DOMAIN towerBlockIds |-> bodies[towerBlockIds[i]]]
        velocityThreshold == F(1, 10)
        angularVelocityThreshold == F(1, 10)
        OverBase(lowest, com) ==
            /\ FGe(com.x, FSub(towerBlocks[lowest].position.x,
                               FDiv(towerBlocks[lowest].width, F(2, 1))))
            /\ FLe(com.x, FAdd(towerBlocks[lowest].position.x,
                               FDiv(towerBlocks[lowest].width, F(2, 1))))
    IN  IF towerBlockIds = <<>> THEN TRUE
        ELSE IF \E i \in DOMAIN towerBlockIds : towerBlockIds[i] \notin DOMAIN bodies
               THEN FALSE
        ELSE IF \E i \in DOMAIN towerBlocks :
                   \/ FGt(length(towerBlocks[i].velocity), velocityThreshold)
                   \/ FGt(FAbs(towerBlocks[i].angularVelocity),
                          angularVelocityThreshold)
               THEN FALSE
        ELSE IF lowestBlock(towerBlocks, 1, FLT_MAX, 0) = 0 THEN FALSE
        ELSE OverBase(lowestBlock(towerBlocks, 1, FLT_MAX, 0),
                      centerOfMass(towerBlocks, 1, VZero, Zero))

\* bool PhysicsEngine::checkTowerStability(towerBlockIds)
checkTowerStability(towerBlockIds) ==
    /\ MainIdle /\ LockFree
    /\ before' = EngineState
    /\ call' = [op |-> "checkTowerStability", id |-> towerBlockIds]
    /\ ret' = IF towerStability(m_bodies, towerBlockIds) THEN "true" ELSE "false"
    /\ nCalls' = nCalls + 1
    /\ UNCHANGED <<ffi, data, control, issuedIds, delivered, json, nSteps, nIters>>

\* the bodies a tower is built of: the base and a block on it as in
\* testTowerStability, a block beside the base, a block below it, a heavy
\* block beside it, a block that moves and a block that turns
TowerBodies ==
    {TowerBase,
     Block(Zero, One),
     Block(F(2, 1), One),
     Block(F(1, 1), F(-1, 1)),
     updateMassData([Block(F(12, 5), One) EXCEPT !.mass = F(3, 1)]),
     [Block(Zero, One) EXCEPT !.velocity = Vector2(F(3, 25), F(4, 25))],
     [Block(Zero, One) EXCEPT !.angularVelocity = F(-1, 5)]}

\* the lists a caller hands to checkTowerStability
MaxTower == 2

TowerLists == UNION {[1 .. n -> IdSpace] : n \in 0 .. MaxTower}

NextTower ==
    \/ \E body \in TowerBodies : createBody(body)
    \/ \E id \in IdSpace : removeBody(id)
    \/ \E towerBlockIds \in TowerLists : checkTowerStability(towerBlockIds)

SpecTower == Init /\ [][NextTower]_vars

(***************************************************************************)
(* PhysicsEngine::applyExplosion of the python_logic build                 *)
(***************************************************************************)
\* the body of the loop of applyExplosion
explodeBody(body, center, radius, force) ==
    LET direction == VSub(body.position, center)
        distance == length(VSub(body.position, center))
        strength == FMul(force, FSub(One, FDiv(length(VSub(body.position, center)),
                                               radius)))
    IN  IF FLe(distance, radius)
          THEN bodyApplyForce(body, VScale(normalized(direction), strength))
          ELSE body

\* void PhysicsEngine::applyExplosion(center, radius, force)
applyExplosion(center, radius, force) ==
    /\ CallIdle
    /\ before' = EngineState
    /\ m_bodies' = [id \in DOMAIN m_bodies |->
                       explodeBody(m_bodies[id], center, radius, force)]
    /\ call' = [op |-> "applyExplosion",
                id |-> [center |-> center, radius |-> radius, force |-> force]]
    /\ ret' = "void"
    /\ nCalls' = nCalls + 1
    /\ UNCHANGED <<ffi, m_contacts, m_gravity, m_timeStep, m_velocityIterations,
                   m_positionIterations, m_collisionCallback, control,
                   issuedIds, delivered, json, nSteps, nIters>>

\* the bodies an explosion meets: at the center, inside the radius, on the
\* radius, outside of it, and an inactive body inside the radius
ExplosionBodies ==
    {Block(Zero, Zero),
     Block(F(3, 1), F(4, 1)),
     Block(F(6, 1), F(8, 1)),
     Block(F(20, 1), Zero),
     [Block(F(-4, 1), F(3, 1)) EXCEPT !.isActive = FALSE]}

\* the explosions of the application: radius 10 and force 50, at the origin
\* and beside it
ExplosionCenters == {VZero, Vector2(F(3, 1), Zero)}

NextExplosion ==
    \/ \E body \in ExplosionBodies : createBody_py(body)
    \/ \E center \in ExplosionCenters : applyExplosion(center, F(10, 1), F(50, 1))

SpecExplosion == Init /\ [][NextExplosion]_vars

(***************************************************************************)
(* PhysicsEngine::checkCollision on pairs of rectangles                    *)
(***************************************************************************)
\* a default-constructed PhysicsBody with the given center, size and rotation
Rect(id, x, y, width, height, rotation) ==
    [Block(x, y) EXCEPT !.id = id, !.width = width, !.height = height,
                        !.rotation = rotation]

\* the first rectangle of a pair: a unit square, a bar, and the bar turned by
\* a quarter
FirstRects ==
    {Rect("a", Zero, Zero, One, One, Zero),
     Rect("a", Zero, Zero, F(4, 1), One, Zero),
     Rect("a", Zero, Zero, F(4, 1), One, HalfPi)}

\* the second rectangle of a pair: a unit square or a brick, upright or turned
\* by a quarter, at centers that overlap the first, touch it, or lie apart
SecondRects ==
    {Rect("b", x, y, width, One, rotation) :
        x \in {F(-1, 1), Zero, F(1, 2), One, F(10, 1)},
        y \in {Zero, F(1, 2), F(9, 5)},
        width \in {One, F(2, 1)},
        rotation \in {Zero, HalfPi}}

\* an engine that holds one pair of rectangles
InitCollision ==
    /\ \E bodyA \in FirstRects, bodyB \in SecondRects :
         m_bodies = [id \in {"a", "b"} |-> IF id = "a" THEN bodyA ELSE bodyB]
    /\ m_contacts = <<>>
    /\ m_gravity = Vector2(Zero, F(-49, 5))
    /\ m_timeStep = F(1, 60)
    /\ m_velocityIterations = 8
    /\ m_positionIterations = 3
    /\ m_isRunning = FALSE
    /\ m_isPaused = FALSE
    /\ m_collisionCallback = FALSE
    /\ m_mutex = "none"
    /\ g_collisionCallback = FALSE
    /\ g_callbackMutex = "none"
    /\ m_simulationThread = "none"
    /\ pc = [t \in Threads |-> IF t = "main" THEN "idle" ELSE "none"]
    /\ deltaTime = [t \in Threads |-> Zero]
    /\ seenPaused = FALSE
    /\ alive = "up"
    /\ call = [op |-> "PhysicsEngine", id |-> ""]
    /\ ret = "void"
    /\ issuedIds = <<>>
    /\ delivered = <<>>
    /\ stopped = FALSE
    /\ json = [ok |-> FALSE, obj |-> JNull, state |-> EngineState]
    /\ before = EngineState
    /\ nCalls = 0
    /\ nSteps = 0
    /\ nIters = 0

\* checkCollision(bodyA, bodyB, &contact) on the pair of the store: the
\* contact that was filled in is kept in m_contacts
checkCollisionOfPair(idA, idB) ==
    /\ MainIdle
    /\ nCalls = 0
    /\ idA # idB
    /\ m_contacts' = IF checkCollision(m_bodies[idA], m_bodies[idB]).hit
                       THEN <<checkCollision(m_bodies[idA], m_bodies[idB]).contact>>
                       ELSE <<>>
    /\ Called("checkCollision", idA,
              IF checkCollision(m_bodies[idA], m_bodies[idB]).hit
                THEN "true" ELSE "false")
    /\ UNCHANGED <<ffi, m_bodies, m_gravity, m_timeStep, m_velocityIterations,
                   m_positionIterations, m_collisionCallback, control,
                   issuedIds, delivered, json, before, nSteps, nIters>>

NextCollision ==
    \E idA, idB \in {"a", "b"} : checkCollisionOfPair(idA, idB)

SpecCollision == InitCollision /\ [][NextCollision]_vars

(***************************************************************************)
(* PhysicsEngine::resolveCollisions on pairs of bodies                     *)
(***************************************************************************)
\* the body with the mass and the static flag set and updateMassData() called
Massive(body, mass, isStatic) ==
    updateMassData([body EXCEPT !.mass = mass, !.isStatic = isStatic])

\* the first body of a pair, a unit square at the origin: at rest, static,
\* moving to the right, heavy, and switched off
ResolveFirst ==
    {Rect("a", Zero, Zero, One, One, Zero),
     Massive(Rect("a", Zero, Zero, One, One, Zero), One, TRUE),
     [Rect("a", Zero, Zero, One, One, Zero) EXCEPT !.velocity = Vector2(One, Zero)],
     Massive(Rect("a", Zero, Zero, One, One, Zero), F(2, 1), FALSE),
     [Rect("a", Zero, Zero, One, One, Zero) EXCEPT !.isActive = FALSE]}

\* the second body of a pair, a unit square to the right of the first that
\* overlaps it by a half, by less than the slop, or touches it: at rest,
\* static, moving away, moving closer, and heavy
ResolveSecond ==
    UNION {{Rect("b", x, Zero, One, One, Zero),
            Massive(Rect("b", x, Zero, One, One, Zero), One, TRUE),
            [Rect("b", x, Zero, One, One, Zero) EXCEPT
                !.velocity = Vector2(F(2, 1), Zero)],
            [Rect("b", x, Zero, One, One, Zero) EXCEPT
                !.velocity = Vector2(F(-1, 1), Zero)],
            Massive(Rect("b", x, Zero, One, One, Zero), F(2, 1), FALSE)} :
           x \in {F(1, 2), F(199, 200), One}}

\* an engine after construction whose store holds the given bodies
InitWith(bodies) ==
    /\ m_bodies = bodies
    /\ m_contacts = <<>>
    /\ m_gravity = Vector2(Zero, F(-49, 5))
    /\ m_timeStep = F(1, 60)
    /\ m_velocityIterations = 8
    /\ m_positionIterations = 3
    /\ m_isRunning = FALSE
    /\ m_isPaused = FALSE
    /\ m_collisionCallback = FALSE
    /\ m_mutex = "none"
    /\ g_collisionCallback = FALSE
    /\ g_callbackMutex = "none"
    /\ m_simulationThread = "none"
    /\ pc = [t \in Threads |-> IF t = "main" THEN "idle" ELSE "none"]
    /\ deltaTime = [t \in Threads |-> Zero]
    /\ seenPaused = FALSE
    /\ alive = "up"
    /\ call = [op |-> "PhysicsEngine", id |-> ""]
    /\ ret = "void"
    /\ issuedIds = <<>>
    /\ delivered = <<>>
    /\ stopped = FALSE
    /\ json = [ok |-> FALSE, obj |-> JNull, state |-> EngineState]
    /\ before = EngineState
    /\ nCalls = 0
    /\ nSteps = 0
    /\ nIters = 0

\* an engine that holds one pair of bodies
InitResolve ==
    \E bodyA \in ResolveFirst, bodyB \in ResolveSecond :
        InitWith([id \in {"a", "b"} |-> IF id = "a" THEN bodyA ELSE bodyB])

\* the steps of update on the pair
NextResolve ==
    \/ \E dt \in ManualDts : update(dt)
    \/ update_lock("main")
    \/ update_detect("main")
    \/ update_detect_deadlock("main")
    \/ update_detect_throw("main")
    \/ update_resolve("main")
    \/ update_integrate("main")

SpecResolve == InitResolve /\ [][NextResolve]_vars

(***************************************************************************)
(* PhysicsEngine::applySpell on one body                                   *)
(***************************************************************************)
\* every spell type applySpell tells apart
SpellTypes ==
    {"heavy", "light", "slippery", "sticky", "bouncy", "normal",
     "impulse_up", "impulse_down", "impulse_left", "impulse_right",
     "rotate_cw", "rotate_ccw"}

\* the body the spells are cast on: a default block, the base of
\* testTowerStability whose isStatic was set after construction, and a base
\* for which updateMassData() was called after that
SpellBodies ==
    {Rect("a", Zero, Zero, One, One, Zero),
     [Rect("a", Zero, Zero, F(3, 1), One, Zero) EXCEPT !.isStatic = TRUE],
     Massive(Rect("a", Zero, Zero, F(3, 1), One, Zero), One, TRUE)}

\* an engine that holds one body
InitSpell == \E body \in SpellBodies : InitWith([id \in {"a"} |-> body])

NextSpell == \E spellType \in SpellTypes : applySpell(spellType, <<"a">>)

SpecSpell == InitSpell /\ [][NextSpell]_vars

(***************************************************************************)
(* PhysicsEngine::isPointInBody of the python_logic build                  *)
(***************************************************************************)
\* bool PhysicsEngine::isPointInBody(bodyId, point): the point is brought
\* into the local frame of the body and handed to PhysicsBody::containsPoint,
\* which brings the point it is given into the local frame itself
isPointInBody_py(bodyId, point) ==
    /\ CallIdle
    /\ before' = EngineState
    /\ call' = [op |-> "isPointInBody", id |-> bodyId, point |-> point]
    /\ ret' = IF bodyId \notin DOMAIN m_bodies THEN "false"
              ELSE IF containsPoint(
                          m_bodies[bodyId],
                          Rotate(cosf(FNeg(m_bodies[bodyId].rotation)),
                                 sinf(FNeg(m_bodies[bodyId].rotation)),
                                 VSub(point, m_bodies[bodyId].position)))
                     THEN "true" ELSE "false"
    /\ nCalls' = nCalls + 1
    /\ UNCHANGED <<ffi, data, control, issuedIds, delivered, json, nSteps, nIters>>

\* the body that is asked about: a unit square at the origin and away from
\* it, a bar, and the bar turned by a quarter
PointBodies ==
    {Rect("a", Zero, Zero, One, One, Zero),
     Rect("a", F(5, 1), F(5, 1), One, One, Zero),
     Rect("a", Zero, Zero, F(4, 1), One, Zero),
     Rect("a", Zero, Zero, F(4, 1), One, HalfPi),
     Rect("a", F(5, 1), F(5, 1), F(4, 1), One, HalfPi)}

\* the points that are asked about
Points ==
    {Vector2(x, y) : x \in {Zero, F(1, 2), F(3, 2), F(5, 1)},
                     y \in {Zero, F(3, 2), F(5, 1), F(13, 2)}}

\* an engine that holds one body
InitPoint == \E body \in PointBodies : InitWith([id \in {"a"} |-> body])

NextPoint ==
    \E bodyId \in {"a", "b"}, point \in Points : isPointInBody_py(bodyId, point)

SpecPoint == InitPoint /\ [][NextPoint]_vars

(***************************************************************************)
(* the boundary interface: the collision callback and its mutex, with a    *)
(* second thread that steps the engine of src/src/python_logic/cpp-physics *)
(***************************************************************************)
\* void physics_engine_set_collision_callback(engine, callback), up to the
\* call of registerCollisionCallback: std::lock_guard lock(g_callbackMutex)
\* and g_collisionCallback = callback
physics_engine_set_collision_callback(callback) ==
    /\ MainIdle
    /\ g_callbackMutex = "none"
    /\ g_callbackMutex' = "main"
    /\ g_collisionCallback' = callback
    /\ pc' = [pc EXCEPT !["main"] = "register"]
    /\ Called("physics_engine_set_collision_callback", "", "pending")
    /\ UNCHANGED <<data, m_isRunning, m_isPaused, m_simulationThread, m_mutex,
                   deltaTime, seenPaused, alive, stopped, issuedIds, delivered,
                   json, before, nSteps, nIters>>

\* registerCollisionCallback(collisionCallbackWrapper) or (nullptr) called by
\* physics_engine_set_collision_callback while it holds g_callbackMutex:
\* std::lock_guard lock(m_mutex), m_collisionCallback = callback, and the
\* release of both locks on return
set_collision_callback_register ==
    /\ alive = "up"
    /\ pc["main"] = "register"
    /\ m_mutex = "none"
    /\ m_collisionCallback' = g_collisionCallback
    /\ g_callbackMutex' = "none"
    /\ pc' = [pc EXCEPT !["main"] = "idle"]
    /\ ret' = "void"
    /\ UNCHANGED <<m_bodies, m_contacts, m_gravity, m_timeStep,
                   m_velocityIterations, m_positionIterations, m_isRunning,
                   m_isPaused, m_simulationThread, m_mutex, deltaTime,
                   seenPaused, alive, stopped, call, g_collisionCallback,
                   ghost>>

\* void physics_engine_update(engine, deltaTime) of a thread that is between
\* two calls, up to the lock of update: if (m_isPaused) return
physics_engine_update(t, dt) ==
    /\ alive = "up"
    /\ pc[t] = (IF t = "main" THEN "idle" ELSE "none")
    /\ ~m_isPaused
    /\ nSteps < MaxSteps
    /\ nSteps' = nSteps + 1
    /\ pc' = [pc EXCEPT ![t] = "lock"]
    /\ deltaTime' = [deltaTime EXCEPT ![t] = dt]
    /\ UNCHANGED <<data, m_isRunning, m_isPaused, m_simulationThread, m_mutex,
                   seenPaused, alive, stopped, call, ret, issuedIds, delivered,
                   json, before, nCalls, nIters, ffi>>

\* detectCollisions() of the build in which the second lock of getAllBodies
\* goes on: the contacts are collected, and with a registered callback the
\* thread goes to call it for the contact of the pair
update_detect_py(t) ==
    /\ alive = "up"
    /\ pc[t] = "detect"
    /\ \E order \in Orders(m_bodies) :
         m_contacts' = detectCollisions(m_bodies, order, FALSE).contacts
    /\ delivered' = <<>>
    /\ pc' = [pc EXCEPT ![t] = IF m_collisionCallback /\ m_contacts' # <<>>
                                 THEN "callback" ELSE "resolve"]
    /\ UNCHANGED <<m_bodies, m_gravity, m_timeStep, m_velocityIterations,
                   m_positionIterations, m_collisionCallback, m_isRunning,
                   m_isPaused, m_simulationThread, m_mutex, deltaTime,
                   seenPaused, alive, stopped, call, ret, issuedIds, json,
                   before, nCalls, nSteps, nIters, ffi>>

\* void collisionCallbackWrapper(const Contact&) called by detectCollisions
\* inside update, which holds m_mutex: std::lock_guard lock(g_callbackMutex),
\* then with a callback of the caller std::stoi of both identifiers and the
\* call.  std::invalid_argument of stoi releases both locks on its way out
\* of update and leaves the thread.
collisionCallbackWrapper(t) ==
    /\ alive = "up"
    /\ pc[t] = "callback"
    /\ g_callbackMutex = "none"
    /\ IF g_collisionCallback
          /\ (stoi(m_contacts[1].bodyA).thrown \/ stoi(m_contacts[1].bodyB).thrown)
         THEN /\ m_mutex' = "none"
              /\ pc' = [pc EXCEPT ![t] = "exited"]
              /\ alive' = "terminated"
              /\ delivered' = delivered
         ELSE /\ delivered' = IF g_collisionCallback
                                THEN Append(delivered, m_contacts[1])
                                ELSE delivered
              /\ pc' = [pc EXCEPT ![t] = "resolve"]
              /\ UNCHANGED <<m_mutex, alive>>
    /\ UNCHANGED <<data, m_isRunning, m_isPaused, m_simulationThread,
                   deltaTime, seenPaused, stopped, call, ret, issuedIds, json,
                   before, nCalls, nSteps, nIters, ffi>>

\* resolveCollisions() and integrate(deltaTime) of update, the release of
\* m_mutex and the return to the caller of physics_engine_update; before
\* keeps the state with which they began
update_finish_py(t) ==
    /\ alive = "up"
    /\ pc[t] = "resolve"
    /\ before' = EngineState
    /\ m_bodies' = integrate_py(resolveCollisions(m_bodies, m_contacts, 1),
                                m_gravity, deltaTime[t])
    /\ m_mutex' = "none"
    /\ pc' = [pc EXCEPT ![t] = IF t = "main" THEN "idle" ELSE "none"]
    /\ UNCHANGED <<m_contacts, m_gravity, m_timeStep, m_velocityIterations,
                   m_positionIterations, m_collisionCallback, m_isRunning,
                   m_isPaused, m_simulationThread, deltaTime, seenPaused,
                   alive, stopped, call, ret, issuedIds, delivered, json,
                   nCalls, nSteps, nIters, ffi>>

\* the identifiers of the pair: two of generateUniqueId, or two numbers that
\* an imported state carries
CallbackIds == {<<"body_00000001", "body_00000002">>, <<"1", "2">>}

\* a pair of blocks that overlap, or that are apart
InitCallback ==
    \E ids \in CallbackIds, x \in {F(1, 2), F(3, 1)} :
        InitWith([id \in {ids[1], ids[2]} |->
                     [Block(IF id = ids[1] THEN Zero ELSE x, Zero)
                        EXCEPT !.id = id]])

NextCallback ==
    \/ \E callback \in BOOLEAN : physics_engine_set_collision_callback(callback)
    \/ set_collision_callback_register
    \/ \E dt \in ManualDts : physics_engine_update("driver", dt)
    \/ update_lock("driver")
    \/ update_detect_py("driver")
    \/ update_detect_deadlock("driver")
    \/ update_detect_throw("driver")
    \/ collisionCallbackWrapper("driver")
    \/ update_finish_py("driver")

SpecCallback == InitCallback /\ [][NextCallback]_vars

(***************************************************************************)
(* the engine of src/src/cpp_physics: the life of the driver thread        *)
(***************************************************************************)
\* PhysicsEngine::~PhysicsEngine(): shutdown(), up to the join of
\* stopSimulation(); without a join the containers are cleared and the
\* members are destroyed, and the destructor of a std::thread that is still
\* joinable calls std::terminate
PhysicsEngine_destructor ==
    /\ MainIdle
    /\ call' = [op |-> "~PhysicsEngine", id |-> ""]
    /\ nCalls' = nCalls + 1
    /\ m_isRunning' = FALSE
    /\ IF m_isRunning /\ m_simulationThread # "none"
         THEN /\ pc' = [pc EXCEPT !["main"] = "join_destructor"]
              /\ ret' = "pending"
              /\ UNCHANGED <<m_bodies, m_contacts, alive>>
         ELSE /\ \/ /\ m_bodies' = EmptyStore
                    /\ m_contacts' = <<>>
                    /\ alive' = IF m_simulationThread # "none"
                                  THEN "terminated" ELSE "destroyed"
                 \/ /\ Racing
                    /\ alive' = "crashed"
                    /\ UNCHANGED <<m_bodies, m_contacts>>
              /\ ret' = "void"
              /\ pc' = pc
    /\ UNCHANGED <<m_gravity, m_timeStep, m_velocityIterations,
                   m_positionIterations, m_collisionCallback, m_isPaused,
                   m_simulationThread, m_mutex, deltaTime, seenPaused,
                   stopped, issuedIds, delivered, json, before, nSteps, nIters,
                   ffi>>

\* m_simulationThread.join() of the destructor returns: the containers are
\* cleared and the members are destroyed
join_destructor ==
    /\ alive = "up"
    /\ pc["main"] = "join_destructor"
    /\ m_simulationThread = "finished"
    /\ m_simulationThread' = "none"
    /\ pc' = [pc EXCEPT !["main"] = "idle"]
    /\ stopped' = TRUE
    /\ ret' = "void"
    /\ m_bodies' = EmptyStore
    /\ m_contacts' = <<>>
    /\ alive' = "destroyed"
    /\ UNCHANGED <<m_gravity, m_timeStep, m_velocityIterations,
                   m_positionIterations, m_collisionCallback, m_isRunning,
                   m_isPaused, m_mutex, deltaTime, seenPaused, call,
                   issuedIds, delivered, json, before, nCalls, nSteps, nIters,
                   ffi>>

NextLifecycle ==
    \/ initialize
    \/ shutdown
    \/ startSimulation
    \/ pauseSimulation
    \/ stopSimulation
    \/ join
    \/ PhysicsEngine_destructor
    \/ join_destructor
    \/ \E t \in Threads : update_lock(t)
    \/ \E t \in Threads : update_detect(t)
    \/ \E t \in Threads : update_detect_deadlock(t)
    \/ \E t \in Threads : update_detect_throw(t)
    \/ \E t \in Threads : update_resolve(t)
    \/ \E t \in Threads : update_integrate(t)
    \/ simulationThread_loop
    \/ simulationThread_exit
    \/ simulationThread_update

SpecLifecycle == Init /\ [][NextLifecycle]_vars

(***************************************************************************)
(* the engine of src/src/python_logic/cpp-physics: forces on a body that   *)
(* is static or inactive                                                   *)
(***************************************************************************)
\* void PhysicsEngine::applyWind(direction, strength): every body of the
\* store gets the force
applyWind(direction, strength) ==
    /\ CallIdle
    /\ m_bodies' = [id \in DOMAIN m_bodies |->
                       bodyApplyForce(m_bodies[id],
                                      VScale(normalized(direction), strength))]
    /\ call' = [op |-> "applyWind", id |-> ""]
    /\ ret' = "void"
    /\ nCalls' = nCalls + 1
    /\ UNCHANGED <<m_contacts, m_gravity, m_timeStep, m_velocityIterations,
                   m_positionIterations, m_collisionCallback, control,
                   issuedIds, delivered, json, before, nSteps, nIters, ffi>>

\* void physics_block_apply_force(engine, blockId, force, point): the body is
\* looked up under the decimal digits of blockId; the point is not used
physics_block_apply_force(blockId, force) ==
    /\ CallIdle
    /\ m_bodies' = IF ToString(blockId) \in DOMAIN m_bodies
                     THEN [m_bodies EXCEPT ![ToString(blockId)] =
                              bodyApplyForce(@, force)]
                     ELSE m_bodies
    /\ Called("physics_block_apply_force", ToString(blockId), "void")
    /\ UNCHANGED <<m_contacts, m_gravity, m_timeStep, m_velocityIterations,
                   m_positionIterations, m_collisionCallback, control,
                   issuedIds, delivered, json, before, nSteps, nIters, ffi>>

\* void physics_block_set_active(void* engine, int blockId, int isActive)
physics_block_set_active(blockId, isActive) ==
    /\ CallIdle
    /\ m_bodies' = IF ToString(blockId) \in DOMAIN m_bodies
                     THEN [m_bodies EXCEPT ![ToString(blockId)] =
                              [@ EXCEPT !.isActive = isActive]]
                     ELSE m_bodies
    /\ Called("physics_block_set_active", ToString(blockId), "void")
    /\ UNCHANGED <<m_contacts, m_gravity, m_timeStep, m_velocityIterations,
                   m_positionIterations, m_collisionCallback, control,
                   issuedIds, delivered, json, before, nSteps, nIters, ffi>>

\* a block with the identifier "1" that is static, or inactive, or both, and
\* holds no force
InitForce ==
    \E isStatic, isActive \in BOOLEAN :
        /\ isStatic \/ ~isActive
        /\ InitWith([id \in {"1"} |->
                        [Massive(DefaultBody, One, isStatic)
                            EXCEPT !.id = id, !.isActive = isActive]])

\* the calls that apply a force, the calls that change the condition of the
\* block, and the step
NextForce ==
    \/ applyWind(Vector2(One, Zero), F(10, 1))
    \/ physics_block_apply_force(1, Vector2(Zero, F(5, 1)))
    \/ \E isStatic \in BOOLEAN : physics_block_set_static(1, isStatic)
    \/ \E isActive \in BOOLEAN : physics_block_set_active(1, isActive)
    \/ \E dt \in ManualDts : physics_engine_update("main", dt)
    \/ update_lock("main")
    \/ update_detect_py("main")
    \/ update_detect_deadlock("main")
    \/ update_detect_throw("main")
    \/ update_finish_py("main")

SpecForce == InitForce /\ [][NextForce]_vars

(***************************************************************************)
(* properties of the step and of the driver                                *)
(***************************************************************************)
\* C1: the lock is held from the start of detection to the end of
\* integration, so a thread inside the locked part of update owns m_mutex
\* and a step of the driver never overlaps a step of a manual update
C1_StepsExclusive ==
    /\ \A t \in Threads : InStep(t) => m_mutex = t
    /\ ~(InStep("main") /\ InStep("driver"))

\* a step of one thread is under way while the other thread waits for the lock
C1_OneStepsOneWaits ==
    \E t, u \in Threads :
        /\ t # u
        /\ pc[t] \in {"resolve", "integrate"}
        /\ pc[u] = "lock"

\* C2: every update on an engine that is not paused runs detection,
\* resolution and integration and returns with the lock released: no thread
\* stays blocked inside update and no update ends with an exception
C2_UpdateReturns ==
    /\ \A t \in Threads : pc[t] # "deadlock"
    /\ ret # "system_error"

C5_FailedImportChangesNothing ==
    (call.op = "deserializeFromJson" /\ call.id # "saved")
        => /\ alive = "up"
           /\ ret = "false"
           /\ EngineState = before

\* C6: deserializeFromJson on the text serializeToJson returned succeeds and
\* leaves the bodies, the gravity, the iteration counts and the flags that
\* the engine had when the text was written
C6_RoundTrip ==
    (call.op = "deserializeFromJson" /\ call.id = "saved")
        => /\ ret = "true"
           /\ EngineState = json.state

\* C7: importStateFromJson on the text exportStateToJson returned reports
\* success and leaves the recorded state, and POST /state with the body of
\* GET /state is answered with 200
C7_ImportOfExport ==
    /\ (call.op = "importStateFromJson" /\ call.id = "saved")
           => (ret = "true" /\ EngineState = json.state)
    /\ (call.op = "POST /state" /\ call.id = "saved") => ret = "200"

(***************************************************************************)
(* properties of the operations on one body                                *)
(***************************************************************************)
\* what an operation returns when it finds no body
Sentinel(op) ==
    CASE op = "getBody" -> "nullptr"
      [] op \in {"removeBody", "isPointInBody"} -> "false"
      [] OTHER -> "void"

C9_FreshIdentifiers ==
    \A i, j \in 1..Len(issuedIds) : i # j => issuedIds[i] # issuedIds[j]

\* C10: every body of the store is static exactly if its inverse mass and
\* its inverse inertia are both zero
C10_StaticIffNoInverse ==
    \A id \in DOMAIN m_bodies :
        m_bodies[id].isStatic <=> (/\ IsZero(m_bodies[id].inverseMass)
                                   /\ IsZero(m_bodies[id].inverseInertia))

\* C11: a call of physics_engine_create_block that was made has returned a
\* non-negative block number to a caller that is still running
C11_CreateReturnsNumber ==
    call.op = "physics_engine_create_block" =>
        /\ alive = "up"
        /\ \E i \in FfiIds : ret = to_string(i)

\* C12: a call of physics_engine_create_tetris_block for one of the seven
\* kinds has added four bodies to the store and returned their numbers
C12_FourBodiesStored ==
    (call.op = "physics_engine_create_tetris_block" /\ ret # "nullptr") =>
        /\ ret = "ids"
        /\ Cardinality(DOMAIN m_bodies) = Cardinality(DOMAIN before.bodies) + 4

\* C13: a static body of the store has the position, the rotation, the
\* velocity and the angular velocity it was created with (the static bodies
\* of this specification are created as TowerBase), whatever forces,
\* impulses, spells and steps were applied since
C13_StaticBodyKeepsMotion ==
    \A id \in DOMAIN m_bodies :
        m_bodies[id].isStatic =>
            /\ m_bodies[id].position = TowerBase.position
            /\ m_bodies[id].rotation = TowerBase.rotation
            /\ m_bodies[id].velocity = TowerBase.velocity
            /\ m_bodies[id].angularVelocity = TowerBase.angularVelocity

\* C14: when the detection of a step is done and nothing of the step has been
\* resolved, the callback has been called once for each contact of the
\* step's list, in the order of the list, if one is registered, and not at
\* all if none is; the list is the one detection finds with or without a
\* callback
C14_CallbackPerContact ==
    \A t \in Threads :
        pc[t] = "resolve" =>
            /\ delivered = IF m_collisionCallback THEN m_contacts ELSE <<>>
            /\ \E order \in Orders(m_bodies) :
                 /\ m_contacts = detectCollisions(m_bodies, order, FALSE).contacts
                 /\ m_contacts = detectCollisions(m_bodies, order, TRUE).contacts

\* a step with a registered callback has found a contact and delivered it
C14_ContactDelivered ==
    \E t \in Threads :
        /\ pc[t] = "resolve"
        /\ m_collisionCallback
        /\ Len(m_contacts) >= 1
        /\ delivered = m_contacts

C17_ExplosionForces ==
    call.op = "applyExplosion" =>
        \A id \in DOMAIN m_bodies :
            LET body == before.bodies[id]
                d == length(VSub(before.bodies[id].position, call.id.center))
                Added(dist) ==
                    IF IsZero(dist) THEN VZero
                    ELSE VScale(VSub(body.position, call.id.center),
                                FDiv(FMul(call.id.force,
                                          FSub(One, FDiv(dist, call.id.radius))),
                                     dist))
            IN  m_bodies[id].force =
                    IF body.isActive /\ FLe(d, call.id.radius)
                      THEN VAdd(body.force, Added(d))
                      ELSE body.force

\* C18: the integration of a step with dt = 0.1 under the gravity (0, -9.8)
\* leaves a dynamic active body that was at rest with no accumulated force
\* with the velocity (0, -0.9604) and moves it by (0, -0.09604), whatever its
\* mass
C18_OneStepFromRest ==
    [][(/\ pc["main"] = "integrate" /\ pc'["main"] = "idle"
        /\ deltaTime["main"] = F(1, 10)
        /\ m_gravity = Vector2(Zero, F(-49, 5))) =>
          \A id \in DOMAIN m_bodies :
             (/\ ~m_bodies[id].isStatic /\ m_bodies[id].isActive
              /\ m_bodies[id].velocity = VZero
              /\ m_bodies[id].force = VZero) =>
                 /\ m_bodies'[id].velocity = Vector2(Zero, F(-2401, 2500))
                 /\ m_bodies'[id].position =
                        VAdd(m_bodies[id].position, Vector2(Zero, F(-2401, 25000)))]_vars

\* a block made twice as heavy has fallen for one step from rest
C18_HeavyBlockFell ==
    /\ call.op = "update" /\ ret = "void" /\ pc["main"] = "idle"
    /\ \E id \in DOMAIN m_bodies :
         /\ ~m_bodies[id].isStatic
         /\ m_bodies[id].mass = F(2, 1)
         /\ m_bodies[id].velocity = Vector2(Zero, F(-2401, 2500))
         /\ m_bodies[id].position = Vector2(Zero, F(22599, 25000))

\* C19: for two upright rectangles checkCollision reports a contact exactly
\* when their extents overlap or touch on both axes; the penetration of the
\* contact is the smaller of the two overlaps, its normal is the unit vector
\* of an axis of that overlap and does not point from the second center to
\* the first, and its point is halfway between the centers
C19_UprightContact ==
    (/\ call.op = "checkCollision"
     /\ \A id \in DOMAIN m_bodies : m_bodies[id].rotation = Zero) =>
        LET A == m_bodies[call.id]
            B == m_bodies[CHOOSE id \in DOMAIN m_bodies : id # call.id]
            Lo(b, axis) == FSub(b.position[axis],
                                FDiv(IF axis = "x" THEN b.width ELSE b.height,
                                     F(2, 1)))
            Hi(b, axis) == FAdd(b.position[axis],
                                FDiv(IF axis = "x" THEN b.width ELSE b.height,
                                     F(2, 1)))
            Overlap(axis) == FSub(FMin(Hi(A, axis), Hi(B, axis)),
                                  FMax(Lo(A, axis), Lo(B, axis)))
            Along(axis, normal) ==
                /\ normal[axis] \in {One, F(-1, 1)}
                /\ normal[IF axis = "x" THEN "y" ELSE "x"] = Zero
        IN  IF FGe(Overlap("x"), Zero) /\ FGe(Overlap("y"), Zero)
              THEN /\ ret = "true"
                   /\ Len(m_contacts) = 1
                   /\ m_contacts[1].penetration = FMin(Overlap("x"), Overlap("y"))
                   /\ FGe(m_contacts[1].penetration, Zero)
                   /\ \E axis \in {"x", "y"} :
                        /\ Overlap(axis) = m_contacts[1].penetration
                        /\ Along(axis, m_contacts[1].normal)
                   /\ FGe(dot(VSub(B.position, A.position), m_contacts[1].normal),
                          Zero)
                   /\ m_contacts[1].point =
                        VScale(VAdd(A.position, B.position), F(1, 2))
              ELSE ret = "false" /\ m_contacts = <<>>

\* the unit squares at (0, 0) and (0.5, 0) were checked and gave the normal
\* (1, 0) and the penetration 0.5
C19_UnitSquares ==
    /\ call = [op |-> "checkCollision", id |-> "a"]
    /\ m_bodies["a"] = Rect("a", Zero, Zero, One, One, Zero)
    /\ m_bodies["b"] = Rect("b", F(1, 2), Zero, One, One, Zero)
    /\ ret = "true"
    /\ m_contacts[1].normal = Vector2(One, Zero)
    /\ m_contacts[1].penetration = F(1, 2)

\* C20: a pair of rectangles for which the separating-axis test finds a
\* collision is reported as colliding by checkCollision
C20_BroadPhaseConservative ==
    call.op = "checkCollision" =>
        \A idA, idB \in DOMAIN m_bodies :
            (idA = call.id /\ idB # idA /\ checkOBBCollision(m_bodies[idA],
                                                            m_bodies[idB]).hit)
                => ret = "true"

\* the velocity of bodyB relative to bodyA at the point of the contact, along
\* the normal of the contact, before the contact was resolved
velocityAlongNormal(contact) ==
    dot(VSub(getVelocityAtPoint(before.bodies[contact.bodyB], contact.point),
             getVelocityAtPoint(before.bodies[contact.bodyA], contact.point)),
        contact.normal)

\* C21: when the contacts of the first step have been resolved, a contact of
\* two static bodies, or of bodies that do not approach each other along its
\* normal (the bodies at rest included), has changed neither the velocity,
\* nor the angular velocity, nor the position of its two bodies
C21_SkippedContact ==
    (pc["main"] = "integrate" /\ nSteps = 1) =>
        \A i \in DOMAIN m_contacts :
            (\/ /\ before.bodies[m_contacts[i].bodyA].isStatic
                /\ before.bodies[m_contacts[i].bodyB].isStatic
             \/ FGe(velocityAlongNormal(m_contacts[i]), Zero)) =>
                \A id \in {m_contacts[i].bodyA, m_contacts[i].bodyB} :
                    /\ m_bodies[id].velocity = before.bodies[id].velocity
                    /\ m_bodies[id].angularVelocity =
                           before.bodies[id].angularVelocity
                    /\ m_bodies[id].position = before.bodies[id].position

\* C22: when a contact of two dynamic bodies that approach each other has
\* been resolved, the bodies are further apart along the normal by
\* max(penetration - 0.01, 0) * 0.2, each moved in proportion to its inverse
\* mass, and not moved at all for a penetration of at most 0.01
C22_PositionalCorrection ==
    (pc["main"] = "integrate" /\ nSteps = 1) =>
        \A i \in DOMAIN m_contacts :
            LET c == m_contacts[i]
                MovedA == VSub(before.bodies[m_contacts[i].bodyA].position,
                               m_bodies[m_contacts[i].bodyA].position)
                MovedB == VSub(m_bodies[m_contacts[i].bodyB].position,
                               before.bodies[m_contacts[i].bodyB].position)
            IN  (/\ ~before.bodies[c.bodyA].isStatic
                 /\ ~before.bodies[c.bodyB].isStatic
                 /\ FLt(velocityAlongNormal(c), Zero)) =>
                    /\ FAdd(dot(MovedA, c.normal), dot(MovedB, c.normal)) =
                         FMul(FMax(FSub(c.penetration, F(1, 100)), Zero), F(1, 5))
                    /\ VScale(MovedA, m_bodies[c.bodyB].inverseMass) =
                         VScale(MovedB, m_bodies[c.bodyA].inverseMass)
                    /\ FLe(c.penetration, F(1, 100)) =>
                         MovedA = VZero /\ MovedB = VZero

\* C28: a body that is not active has the position, the rotation, the
\* velocity and the angular velocity it had before the steps, whatever it
\* overlaps
C28_InactiveBodyKept ==
    \A id \in DOMAIN m_bodies :
        ~m_bodies[id].isActive =>
            /\ m_bodies[id].position = before.bodies[id].position
            /\ m_bodies[id].rotation = before.bodies[id].rotation
            /\ m_bodies[id].velocity = before.bodies[id].velocity
            /\ m_bodies[id].angularVelocity = before.bodies[id].angularVelocity

\* the derived mass data of the body agrees with its mass and its static flag
massDataConsistent(body) ==
    IF body.isStatic
      THEN body.inverseMass = Zero /\ body.inverseInertia = Zero
      ELSE /\ body.inverseMass = FDiv(One, body.mass)
           /\ body.inverseInertia =
                FDiv(F(12, 1),
                     FMul(body.mass, FAdd(FMul(body.width, body.width),
                                          FMul(body.height, body.height))))

C24_CoefficientsInRange ==
    call.op = "applySpell" =>
        \A i \in DOMAIN call.targetBlockIds :
            call.targetBlockIds[i] \in DOMAIN m_bodies =>
                LET body == m_bodies[call.targetBlockIds[i]]
                IN  /\ FGe(body.restitution, Zero) /\ FLe(body.restitution, One)
                    /\ FGe(body.friction, Zero) /\ FLe(body.friction, One)

\* C25: isPointInBody answers true exactly when the point, taken relative to
\* the position of the body and turned back by its rotation, lies within
\* half the width and half the height of the origin; so the center of a body
\* is always in the body
C25_PointInBody ==
    (call.op = "isPointInBody" /\ call.id \in DOMAIN m_bodies) =>
        LET body == m_bodies[call.id]
            Local(cosA, sinA, r) ==
                Vector2(FAdd(FMul(cosA, r.x), FMul(sinA, r.y)),
                        FSub(FMul(cosA, r.y), FMul(sinA, r.x)))
            Within(p) ==
                /\ FLe(FAbs(p.x), FDiv(body.width, F(2, 1)))
                /\ FLe(FAbs(p.y), FDiv(body.height, F(2, 1)))
        IN  /\ ret = "true" <=>
                  Within(Local(cosf(body.rotation), sinf(body.rotation),
                               VSub(call.point, body.position)))
            /\ call.point = body.position => ret = "true"

\* C26: physics_engine_set_collision_callback on one thread and a step that
\* delivers a contact through collisionCallbackWrapper on another never block
\* each other: the two threads never each hold one of g_callbackMutex and
\* m_mutex while waiting for the mutex the other holds
C26_NoLockCycle ==
    ~(/\ pc["main"] = "register"
      /\ g_callbackMutex = "main"
      /\ pc["driver"] = "callback"
      /\ m_mutex = "driver")

\* C27: under any sequence of initialize, startSimulation, pauseSimulation,
\* stopSimulation, shutdown and destruction, no driver thread is started and
\* the engine is not destroyed while a driver thread started before has not
\* been joined: between two calls, whenever m_isRunning is false (so that
\* startSimulation would start a thread and the destructor would not join),
\* m_simulationThread is not joinable, and no destructor ends in
\* std::terminate
C27_DriverJoined ==
    /\ (alive = "up" /\ pc["main"] = "idle" /\ ~m_isRunning)
          => m_simulationThread = "none"
    /\ ~(/\ call.op = "~PhysicsEngine"
         /\ pc["main"] = "idle"
         /\ alive = "terminated")

\* C30: while the paused flag is set, a call of update() changes no body and
\* starts no step, and the driver's update that finds the flag set does not
\* step; the flag is cleared only by initialize() and by startSimulation()
\* called while m_isRunning is false; startSimulation() while the driver is
\* running leaves the flag set and changes nothing
C30_PausedUntilRestart ==
    [][/\ (m_isPaused /\ ~m_isPaused')
            => /\ nCalls' = nCalls + 1
               /\ \/ call'.op = "initialize"
                  \/ call'.op = "startSimulation" /\ ~m_isRunning
       /\ (m_isPaused /\ nCalls' = nCalls + 1 /\ call'.op = "update")
            => /\ ret' = "void"
               /\ UNCHANGED <<data, control, nSteps>>
       /\ (pc["driver"] = "call" /\ pc'["driver"] # "call" /\ seenPaused')
            => /\ pc'["driver"] = "loop"
               /\ UNCHANGED <<data, m_mutex, nSteps>>
       /\ (m_isPaused /\ m_isRunning /\ nCalls' = nCalls + 1
             /\ call'.op = "startSimulation")
            => UNCHANGED <<data, control>>]_vars

\* update() was called on a paused engine that holds a body while the driver
\* is running, and has returned
C30_PausedUpdateReturned ==
    /\ m_isPaused
    /\ m_isRunning
    /\ m_bodies # EmptyStore
    /\ call.op = "update"
    /\ pc["main"] = "idle"
    /\ ret = "void"

\* C29: a force applied to a body while it is static or inactive is not
\* carried over.  The application has made two calls: one that applied a
\* force, before a step that began its integration with the body static or
\* inactive and holding that force, and then the call that made the body
\* dynamic and active.  The body then holds no force, so that its first
\* integration uses only the forces applied since.
C29_ForceNotCarried ==
    \A id \in DOMAIN m_bodies :
        (/\ nCalls = 2
         /\ call.op \in {"physics_block_set_static", "physics_block_set_active"}
         /\ call.id = id
         /\ pc["main"] = "idle"
         /\ id \in DOMAIN before.bodies
         /\ before.bodies[id].isStatic \/ ~before.bodies[id].isActive
         /\ before.bodies[id].force # VZero
         /\ ~m_bodies[id].isStatic /\ m_bodies[id].isActive)
            => m_bodies[id].force = VZero
====
